---- MODULE Spec2Model ----
(***************************************************************************)
(* Model of YT Subscriptions Cleaner:                                      *)
(*   youtubeApi.js      (src/unnamed/part_001, lines 1-251)                *)
(*   limiter.js         (src/src/background/limiter.js, lines 1-31)        *)
(*   the service worker (src/src/background/limiter.js, lines 33-118)      *)
(*   the options page   (src/src/options/options.js)                       *)
(*   content_script.js  (src/src/content/content_script.js)                *)
(*   the badges         (src/src/content/dom.js, lines 103-149)            *)
(*                                                                         *)
(* Conventions.                                                            *)
(*  - A JavaScript value that may be null/undefined is a sequence of       *)
(*    length at most one: Null is <<>>, Some(v) is <<v>>.                  *)
(*  - A string that the code inspects (the API error message) is a         *)
(*    sequence of one-character strings, so that toLowerCase() and         *)
(*    includes() are computed and not assumed.                             *)
(*  - An instant is an integer number of milliseconds since the epoch.     *)
(*    lastUploadAt, an ISO string in the code, is modelled by the instant  *)
(*    new Date(iso).getTime() gives for it.                                *)
(*  - Channel ids are the integers 1..n; the callers hand the pipeline a   *)
(*    duplicate-free list (content_script.js lines 76 and 206).            *)
(*  - An async function is cut at its awaits: one action per continuation. *)
(*  - The clock advances in steps of TickMs between scans; a scan itself   *)
(*    runs within one clock value.                                         *)
(***************************************************************************)
EXTENDS Integers, Sequences, FiniteSets, TLC

VARIABLES
  now,            \* Date.now()
  storage,        \* chrome.storage.local, the "cache.<id>" keys: id -> Null | Some(entry)
  cached,         \* cached: what chrome.storage.local.get returned to the scan
  pc,             \* position of fetchLastUploadDates: idle | batch | detail | done | rejected
  ids,            \* channelIds
  bypassCache,    \* bypassCache
  concurrency,    \* settings.concurrency
  results,        \* results: a function whose domain is the set of keys
  toFetch,        \* toFetch: sequence of [channelId, cachedPlaylistId]
  needPlaylistId, \* needPlaylistId
  i,              \* the batch loop's index i
  playlistIdMap,  \* playlistIdMap: a function whose domain is the set of keys
  bcall,          \* the fetchJsonWithRetry call of the current chunk
  tasks,          \* the detail tasks handed to the limiter: id -> task record
  active,         \* limiter: active
  queue,          \* limiter: queue (ids of the waiting tasks)
  promises,       \* the promises limit() returned: id -> pending | fulfilled | rejected
  order,          \* history: the ids in the order in which limit() was called for them
  scanAt,         \* the clock value at which the current (or last) scan started
  batchCalls,     \* history: the chunks for which a batch call was issued, in order
  detailCalls,    \* history: the ids for which a detail call was issued
  failure,        \* history, kept while the scan runs: id -> the final response of
                  \* the failed call that gave the id its status
  apiKey,         \* chrome.storage.local "apiKey": Null, or Some(string)
  handler,        \* position of the service worker's SCAN_CHANNELS handler:
                  \* none | settings | scan | summary | end
  request,        \* the SCAN_CHANNELS message being handled: Null | Some(message)
  responses,      \* the sendResponse calls made for that message, in order
  cards,          \* content script: the channel cards of the page that carry an id,
                  \* in page order (ytscFindChannelCards)
  scanning,       \* STATE.scanning
  debounceTimer,  \* debounceTimer is armed
  unstamped,      \* content script: the cards whose id is not stamped yet, each
                  \* given by the badge it shows
  badge,          \* the badge that each card of cards shows ("none": no badge)
  retrying,       \* for each card of cards, the number of sendMessage calls of the
                  \* ytsc:retry handler that have not settled
  inflight,       \* the scan() calls suspended at their await, in order
  exit,           \* history: the way the latest scan() call went (awaiting, while
                  \* it is suspended)
  scanned,        \* history: the ids that some scan has put in a SCAN_CHANNELS message
  scanNow         \* the SCAN_NOW message of the popup: its state and what its
                  \* scan(true) call did

\* the variables of fetchLastUploadDates and its limiter
pipeline == <<now, storage, cached, pc, ids, bypassCache, concurrency, results, toFetch,
              needPlaylistId, i, playlistIdMap, bcall, tasks, active, queue,
              promises, order, scanAt, batchCalls, detailCalls, failure>>

\* the variables of the callers of fetchLastUploadDates
shell == <<apiKey, handler, request, responses>>

\* the variables of the content script
page == <<cards, unstamped, badge, retrying, scanning, debounceTimer, inflight, exit,
         scanned, scanNow>>

vars == <<pipeline, shell, page>>

----------------------------------------------------------------------------
(* Bounds of the model *)

MaxIds == 2
MaxConcurrency == 1
MaxTicks == 2

(* Program constants *)

BatchSize == 50
MaxRetries == 3
InitialDelay == 1000
CacheTtlHours == 24
ThresholdDays == 365

HourMs == 60 * 60 * 1000
DayMs == 1000 * 60 * 60 * 24

(* The clock: two ticks of 12 h take an entry written at the start to an   *)
(* age of exactly the default TTL. Instants stay below 2^31 ms, the range  *)
(* of the model checker's integers, so the clock starts 20 days after the  *)
(* epoch.                                                                  *)
TickMs == 12 * HourMs
StartNow == 20 * DayMs
MaxNow == StartNow + MaxTicks * TickMs

----------------------------------------------------------------------------
(* Values *)

Null == <<>>
Some(v) == <<v>>
Val(o) == o[1]

Min(a, b) == IF a < b THEN a ELSE b

SeqToSet(s) == {s[k] : k \in 1..Len(s)}

EmptyMap == [x \in {} |-> Null]

\* obj[key] = value on a JavaScript object
Put(f, k, v) == [x \in (DOMAIN f) \cup {k} |-> IF x = k THEN v ELSE f[x]]

Ids == 1..MaxIds

\* The lists of ids a caller may hand over: ids are numbered in the order
\* of their cards on the page, and a scan takes cards in that order, so a
\* list is non-empty, duplicate-free and ascending.
IdLists(S) ==
  {s \in UNION {[1..n -> S] : n \in 1..Cardinality(S)} :
     \A a, b \in 1..Len(s) : a < b => s[a] < s[b]}

\* The uploads playlist the remote API holds for a channel.
HandleOf(id) == 1000 + id

\* Instants the remote API may report: videoPublishedAt 36 hours before the
\* start of the clock, publishedAt (when the item was added to the playlist)
\* 10 days before it.
TRecent == StartNow - 36 * HourMs
TOld == StartNow - 10 * DayMs
Instants == {TRecent}

\* A videoPublishedAt that is a non-empty string new Date() cannot parse:
\* getTime() gives NaN for it, and arithmetic on NaN gives NaN. Both are
\* marked by negative numbers, which no instant and no age of the model is.
InvalidDate == -1
NaN == -2
getTime(isoDate) == IF isoDate = InvalidDate THEN NaN ELSE isoDate

----------------------------------------------------------------------------
(* Strings the code inspects *)

Lower(ch) ==
  CASE ch = "Q" -> "q"
    [] ch = "U" -> "u"
    [] ch = "O" -> "o"
    [] ch = "T" -> "t"
    [] ch = "A" -> "a"
    [] OTHER -> ch

toLowerCase(s) == [k \in 1..Len(s) |-> Lower(s[k])]

includes(s, sub) ==
  \E k \in 1..(Len(s) - Len(sub) + 1) : SubSeq(s, k, k + Len(sub) - 1) = sub

QuotaWord == <<"q", "u", "o", "t", "a">>

\* messages a server may put in body.error.message
MsgQuota == <<"x", "Q", "u", "O", "t", "a">>
MsgOther == <<"q", "u", "o", "t">>
ApiMsgs == {Null, Some(MsgQuota), Some(MsgOther)}

\* messages of the exceptions the runtime raises
MsgNetwork == <<"n", "e", "t">>
MsgSyntax == <<"s", "y", "n">>
MsgType == <<"t", "y", "p", "e">>
MsgStorage == <<"s", "t", "o", "r", "e">>

Digit(d) == CASE d = 0 -> "0" [] d = 1 -> "1" [] d = 2 -> "2" [] d = 3 -> "3"
              [] d = 4 -> "4" [] d = 5 -> "5" [] d = 6 -> "6" [] d = 7 -> "7"
              [] d = 8 -> "8" [] OTHER -> "9"

RECURSIVE Digits(_)
Digits(n) == IF n < 10 THEN <<Digit(n)>> ELSE Digits(n \div 10) \o <<Digit(n % 10)>>

\* `HTTP_${r.status}`
HttpMsg(status) == <<"H", "T", "T", "P", "_">> \o Digits(status)

----------------------------------------------------------------------------
(* Responses of the network *)

\* a parsed body: parse is "ok", "syntax" (r.json() rejects) or "null" (the
\* body is the JSON value null); items is data.items, <<>> when absent
Body(parse, items) == [parse |-> parse, items |-> items]
NoBody == Body("ok", <<>>)

\* kind "neterr": fetch() itself rejects; kind "http": a Response with a status
Response(kind, status, msg, data) ==
  [kind |-> kind, status |-> status, msg |-> msg, data |-> data]

OkResponse(data) == Response("http", 200, Null, data)
NetErr == Response("neterr", 0, Null, NoBody)

ErrStatuses == {403, 429, 500}
ErrResponses ==
  {Response("http", s, m, NoBody) : s \in ErrStatuses, m \in ApiMsgs} \cup {NetErr}

\* bodies that are no usable JSON object
BadBodies == {Body("syntax", <<>>), Body("null", <<>>)}

\* channels.list: the answer for a chunk. For each requested id the server
\* returns an item with an uploads playlist ("handle"), an item without one
\* ("nouploads") or no item ("missing"); it may add an item nobody asked for.
StrayId == 0
BatchItem(id, kind) ==
  [id |-> id, uploads |-> IF kind = "handle" THEN Some(HandleOf(id)) ELSE Null]

RECURSIVE BatchItems(_, _)
BatchItems(batch, kinds) ==
  IF batch = <<>> THEN <<>>
  ELSE LET id == Head(batch)
           rest == BatchItems(Tail(batch), kinds)
       IN IF kinds[id] = "missing" THEN rest
          ELSE <<BatchItem(id, kinds[id])>> \o rest

BatchBody(batch, kinds, stray) ==
  Body("ok", BatchItems(batch, kinds) \o
             (IF stray THEN <<BatchItem(StrayId, "handle")>> ELSE <<>>))

ItemKinds == {"handle", "nouploads", "missing"}

BatchResponses(batch) ==
  {OkResponse(BatchBody(batch, kinds, stray)) :
     kinds \in [SeqToSet(batch) -> ItemKinds], stray \in BOOLEAN}
  \cup {OkResponse(b) : b \in BadBodies} \cup ErrResponses

\* playlistItems.list with maxResults=1: zero or one item, which carries
\* contentDetails.videoPublishedAt and/or the generic publishedAt
DetailItem(vp, p) == [videoPublishedAt |-> vp, publishedAt |-> p]
DetailBodies ==
  {Body("ok", <<>>)} \cup
  {Body("ok", <<DetailItem(vp, p)>>) :
     vp \in {Null, Some(InvalidDate)} \cup {Some(t) : t \in Instants},
     p \in {Null, Some(TOld)}}

DetailResponses ==
  {OkResponse(b) : b \in DetailBodies \cup BadBodies} \cup ErrResponses

----------------------------------------------------------------------------
(* fetchJsonWithRetry *)

\* a call in progress: st is "fetch" (awaiting fetch) or "sleep" (awaiting
\* sleep(delay)); sleeps is the list of the delays slept so far
NewCall == [st |-> "fetch", attempt |-> 0, delay |-> InitialDelay, sleeps |-> <<>>]

Error(message, status, isQuota) ==
  [message |-> message, status |-> status, isQuota |-> isQuota]
NoError == Error(<<>>, Null, FALSE)

Outcome(tag, data, err) == [tag |-> tag, data |-> data, err |-> err]

\* (isQuota with a fault seeded: 429 is classified like 403)
isQuotaAnyRateLimit(status, apiMsg) ==
  /\ status \in {403, 429}
  /\ apiMsg # Null
  /\ includes(toLowerCase(Val(apiMsg)), <<"q", "u", "o", "t", "a">>)

\* err.isQuota = r.status === 403 && apiMsg?.toLowerCase().includes("quota")
\* (undefined and false are both falsy at the only place it is read)
isQuota(status, apiMsg) ==
  /\ status = 403
  /\ apiMsg # Null
  /\ includes(toLowerCase(Val(apiMsg)), QuotaWord)

\* the rate-limit test of line 56
\* (ShouldRetry with a fault seeded: every error status is retried)
ShouldRetryAnyError(status, attempt) ==
  status # 200 /\ attempt < MaxRetries

ShouldRetry(status, attempt) ==
  (status = 403 \/ status = 429) /\ attempt < MaxRetries

\* (NextDelay with a fault seeded: the delay grows linearly)
NextDelayLinear(delay) == delay + 1000

\* delay *= 2
NextDelay(delay) == delay * 2

\* One pass through the loop body once fetch(url) has settled with r, for
\* the call in state c: "return" the parsed body, "sleep" before the next
\* attempt, or "throw".
fetchJsonWithRetry(c, r) ==
  IF r.kind = "neterr" THEN Outcome("throw", NoBody, Error(MsgNetwork, Null, FALSE))
  ELSE IF r.status = 200 THEN
    IF r.data.parse = "syntax"
    THEN Outcome("throw", NoBody, Error(MsgSyntax, Null, FALSE))
    ELSE Outcome("return", r.data, NoError)
  ELSE IF ShouldRetry(r.status, c.attempt) THEN Outcome("sleep", NoBody, NoError)
  ELSE Outcome("throw", NoBody,
               Error(IF r.msg # Null /\ Val(r.msg) # <<>> THEN Val(r.msg)
                     ELSE HttpMsg(r.status),
                     Some(r.status), isQuota(r.status, r.msg)))

\* await sleep(delay)
CallSleep(c) == [c EXCEPT !.st = "sleep", !.sleeps = Append(@, c.delay)]

\* delay *= 2; continue (attempt++), and fetch again
CallWake(c) ==
  [c EXCEPT !.st = "fetch", !.attempt = @ + 1, !.delay = NextDelay(@)]

----------------------------------------------------------------------------
(* Cache freshness and result entries *)

\* (CacheEntry with a fault seeded: the fetched timestamp is not stored)
CacheEntryNoUpload(handle, lastUploadAt, lastCheckedAt) ==
  [uploadsPlaylistId |-> handle, lastUploadAt |-> Null,
   lastCheckedAt |-> lastCheckedAt]

\* (CacheEntry with a fault seeded: the handle is not stored)
CacheEntryNoHandle(handle, lastUploadAt, lastCheckedAt) ==
  [uploadsPlaylistId |-> Null, lastUploadAt |-> lastUploadAt,
   lastCheckedAt |-> lastCheckedAt]

\* (CacheEntry with a fault seeded: the time of the check is not stored)
CacheEntryUnstamped(handle, lastUploadAt, lastCheckedAt) ==
  [uploadsPlaylistId |-> handle, lastUploadAt |-> lastUploadAt,
   lastCheckedAt |-> 0]

CacheEntry(handle, lastUploadAt, lastCheckedAt) ==
  [uploadsPlaylistId |-> handle, lastUploadAt |-> lastUploadAt,
   lastCheckedAt |-> lastCheckedAt]

\* (the parameter cached of the source is called entry here)
isFresh(entry, cacheTtlHours, t) ==
  IF entry = Null \/ Val(entry).lastCheckedAt = 0 THEN FALSE
  ELSE LET ttlMs == cacheTtlHours * 60 * 60 * 1000
       IN t - Val(entry).lastCheckedAt < ttlMs

\* (daysAgo with a fault seeded: rounds to the nearest day)
daysAgoRounded(isoDate, t) ==
  IF isoDate = Null THEN Null
  ELSE IF getTime(Val(isoDate)) = NaN THEN Some(NaN)
  ELSE Some((t - getTime(Val(isoDate)) + 12 * 60 * 60 * 1000) \div (1000 * 60 * 60 * 24))

daysAgo(isoDate, t) ==
  IF isoDate = Null THEN Null
  ELSE IF getTime(Val(isoDate)) = NaN THEN Some(NaN)
  ELSE Some((t - getTime(Val(isoDate))) \div (1000 * 60 * 60 * 24))

Result(lastUploadAt, days, status, error) ==
  [lastUploadAt |-> lastUploadAt, daysAgo |-> days,
   thresholdDays |-> ThresholdDays, status |-> status, error |-> error]

\* lines 119-125 and 200-207
DatedResult(lastUploadAt, t) ==
  Result(lastUploadAt, daysAgo(lastUploadAt, t),
         IF lastUploadAt # Null THEN "ok" ELSE "no_uploads", Null)

\* lines 179-183
NoUploadsResult == Result(Null, Null, "no_uploads", Null)

\* (ErrorResult with a fault seeded: a failure is reported as no_uploads)
ErrorResultAsNoUploads(e) ==
  Result(Null, Null, "no_uploads", Some(e.message))

\* the catch blocks of lines 161-166 and 217-220
ErrorResult(e) ==
  Result(Null, Null, IF e.isQuota THEN "quota_exceeded" ELSE "api_error",
         Some(e.message))

----------------------------------------------------------------------------
(* limiter.js: createLimiter *)

\* a detail task: st is "queued" (in the limiter's queue), "fetch" or "sleep"
\* (inside fetchJsonWithRetry), "store" (awaiting chrome.storage.local.set)
\* or "done" (settled); handle is the uploadsPlaylistId its closure holds
NewTask(handle) ==
  [st |-> "queued", handle |-> handle, attempt |-> 0, delay |-> InitialDelay,
   sleeps |-> <<>>]

\* the limiter with the tasks it was handed: L.tasks, L.active, L.queue, and
\* L.started, the ids whose task function has been invoked
Limiter(t, a, q, s) == [tasks |-> t, active |-> a, queue |-> q, started |-> s]

\* (next with a fault seeded: the guard lets one task too many in)
nextOffByOne(L, conc) ==
  IF Len(L.queue) = 0 \/ L.active > conc THEN L
  ELSE LET id == Head(L.queue)
       IN [tasks |-> [L.tasks EXCEPT ![id].st = "fetch"], active |-> L.active + 1,
           queue |-> Tail(L.queue), started |-> L.started \cup {id}]

\* (next with a fault seeded: the task queued last is started first)
nextLifo(L, conc) ==
  IF Len(L.queue) = 0 \/ L.active >= conc THEN L
  ELSE LET id == L.queue[Len(L.queue)]
       IN [tasks |-> [L.tasks EXCEPT ![id].st = "fetch"], active |-> L.active + 1,
           queue |-> SubSeq(L.queue, 1, Len(L.queue) - 1),
           started |-> L.started \cup {id}]

\* next(): start the head of the queue if a slot is free. fn() runs up to
\* its first await, the fetch of fetchJsonWithRetry.
next(L, conc) ==
  IF Len(L.queue) = 0 \/ L.active >= conc THEN L
  ELSE LET id == Head(L.queue)
       IN Limiter([L.tasks EXCEPT ![id].st = "fetch"], L.active + 1,
                  Tail(L.queue), L.started \cup {id})

\* limit(fn): queue.push, next()
limit(L, id, handle, conc) ==
  next(Limiter(Put(L.tasks, id, NewTask(handle)), L.active,
               Append(L.queue, id), L.started), conc)

\* (settle with a fault seeded: the finally does not call next())
settleNoNext(L, id, conc) ==
  [tasks |-> [L.tasks EXCEPT ![id] = [NewTask(@.handle) EXCEPT !.st = "done"]],
   active |-> L.active - 1, queue |-> L.queue, started |-> L.started]

\* (settle with a fault seeded: the finally does not decrement active)
settleNoDecrement(L, id, conc) ==
  next(Limiter([L.tasks EXCEPT ![id] = [NewTask(@.handle) EXCEPT !.st = "done"]],
               L.active, L.queue, L.started), conc)

\* the finally of next(): active--, next(), once task id has settled
settle(L, id, conc) ==
  next(Limiter([L.tasks EXCEPT ![id] = [NewTask(@.handle) EXCEPT !.st = "done"]],
               L.active - 1, L.queue, L.started), conc)

\* a promise: Pending, or settled with a value or with an error
Pending == [state |-> "pending", value |-> Null]
Fulfilled(v) == [state |-> "fulfilled", value |-> v]
Rejected(e) == [state |-> "rejected", value |-> e]
Undefined == Null

\* p.then(resolve): the outer promise is resolved with p's value, and the
\* chained promise is fulfilled with undefined; a rejection of p passes on
Then(p) ==
  IF p.state = "fulfilled"
  THEN [outer |-> Fulfilled(p.value), chained |-> Fulfilled(Undefined)]
  ELSE [outer |-> Pending, chained |-> p]

\* .catch(reject): a rejection that was passed on rejects the outer promise
Catch(c) ==
  IF c.chained.state = "rejected"
  THEN [outer |-> Rejected(c.chained.value), chained |-> Fulfilled(Undefined)]
  ELSE c

\* (PromiseAll with a fault seeded: it settles with the first promise that does)
PromiseAllFirst(ps) ==
  IF \E x \in DOMAIN ps : ps[x].state = "rejected" THEN "rejected"
  ELSE IF DOMAIN ps = {} \/ \E x \in DOMAIN ps : ps[x].state = "fulfilled" THEN "fulfilled"
  ELSE "pending"

\* the state of Promise.all(promises) for the promises ps: rejected as soon
\* as one is, fulfilled once all are
PromiseAll(ps) ==
  IF \E x \in DOMAIN ps : ps[x].state = "rejected" THEN "rejected"
  ELSE IF \A x \in DOMAIN ps : ps[x].state = "fulfilled" THEN "fulfilled"
  ELSE "pending"

\* (limitPromise with a fault seeded: the task's error is masked)
limitPromiseMasked(p) == Fulfilled(Undefined)

\* the promise limit(fn) returned, once fn() has settled as p (lines 16-18)
limitPromise(p) == Catch(Then(p)).outer

\* the ids of a sequence of toFetch elements
ChannelIds(tf) == [k \in 1..Len(tf) |-> tf[k].channelId]

----------------------------------------------------------------------------
(* fetchLastUploadDates, step 1: load the cache and partition *)

\* (Stale with a fault seeded: bypassCache is ignored)
StaleIgnoringBypass(s, cache, bypass, t) ==
  SelectSeq(s, LAMBDA id : ~isFresh(cache[id], CacheTtlHours, t))

\* lines 116-132, the ids that go to toFetch, in input order
Stale(s, cache, bypass, t) ==
  SelectSeq(s, LAMBDA id : ~(~bypass /\ isFresh(cache[id], CacheTtlHours, t)))

FreshIds(s, cache, bypass, t) ==
  {id \in SeqToSet(s) : ~bypass /\ isFresh(cache[id], CacheTtlHours, t)}

\* lines 118-125
CachedResults(s, cache, bypass, t) ==
  [id \in FreshIds(s, cache, bypass, t) |->
     DatedResult(Val(cache[id]).lastUploadAt, t)]

\* lines 127-130; entry?.uploadsPlaylistId ?? null
ToFetch(s, cache, bypass, t) ==
  LET st == Stale(s, cache, bypass, t)
  IN [k \in 1..Len(st) |->
        [channelId |-> st[k],
         cachedPlaylistId |->
           IF cache[st[k]] = Null THEN Null
           ELSE Val(cache[st[k]]).uploadsPlaylistId]]

\* (NeedPlaylistId with a fault seeded: cached handles are not reused)
NeedPlaylistIdAll(tf) == [k \in 1..Len(tf) |-> tf[k].channelId]

\* lines 138-140
NeedPlaylistId(tf) ==
  LET miss == SelectSeq(tf, LAMBDA c : c.cachedPlaylistId = Null)
  IN [k \in 1..Len(miss) |-> miss[k].channelId]

----------------------------------------------------------------------------
(* step 2: the batch loop *)

\* (Chunk with a fault seeded: the slice takes one element too many)
ChunkOneMore(need, idx) == SubSeq(need, idx + 1, Min(idx + BatchSize + 1, Len(need)))

\* needPlaylistId.slice(i, i + 50)
Chunk(need, idx) == SubSeq(need, idx + 1, Min(idx + BatchSize, Len(need)))

\* lines 153-156: playlistIdMap[item.id] = ...uploads ?? null, item by item
RECURSIVE PutItems(_, _)
PutItems(map, items) ==
  IF items = <<>> THEN map
  ELSE PutItems(Put(map, Head(items).id, Head(items).uploads), Tail(items))

\* lines 158-160: ids of the chunk with no entry yet get null
FillMissing(map, batch) ==
  [x \in (DOMAIN map) \cup SeqToSet(batch) |->
     IF x \in DOMAIN map THEN map[x] ELSE Null]

\* (MarkBatch with a fault seeded: a failed chunk marks every id awaiting a handle)
MarkBatchAll(res, batch, e) ==
  [x \in (DOMAIN res) \cup SeqToSet(needPlaylistId) |->
     IF x \in SeqToSet(needPlaylistId)
     THEN [lastUploadAt |-> Null, daysAgo |-> Null, thresholdDays |-> ThresholdDays,
           status |-> IF e.isQuota THEN "quota_exceeded" ELSE "api_error",
           error |-> Some(e.message)]
     ELSE res[x]]

\* (MarkBatch with a fault seeded: only the first id of a failed chunk is marked)
MarkBatchFirst(res, batch, e) ==
  [x \in (DOMAIN res) \cup {Head(batch)} |->
     IF x = Head(batch)
     THEN [lastUploadAt |-> Null, daysAgo |-> Null, thresholdDays |-> ThresholdDays,
           status |-> IF e.isQuota THEN "quota_exceeded" ELSE "api_error",
           error |-> Some(e.message)]
     ELSE res[x]]

\* lines 163-165
MarkBatch(res, batch, e) ==
  [x \in (DOMAIN res) \cup SeqToSet(batch) |->
     IF x \in SeqToSet(batch) THEN ErrorResult(e) ELSE res[x]]

----------------------------------------------------------------------------
(* step 3: lines 170-222, the synchronous toFetch.map *)

\* (UploadsPlaylistId with a fault seeded: an id without a handle gets the
\* handle its channel would have)
UploadsPlaylistIdDefaulted(c, map) ==
  IF c.cachedPlaylistId # Null THEN c.cachedPlaylistId
  ELSE Some(HandleOf(c.channelId))

\* cachedPlaylistId ?? playlistIdMap[channelId]
UploadsPlaylistId(c, map) ==
  IF c.cachedPlaylistId # Null THEN c.cachedPlaylistId
  ELSE IF c.channelId \in DOMAIN map THEN map[c.channelId]
  ELSE Null

\* the callback of toFetch.map takes one of three branches for an element
Skipped(c, res) == c.channelId \in DOMAIN res
Unresolved(c, res, map) == ~Skipped(c, res) /\ UploadsPlaylistId(c, map) = Null
Submitted(c, res, map) == ~Skipped(c, res) /\ UploadsPlaylistId(c, map) # Null

\* (Step3Results with a fault seeded: lines 179-183 are missing)
Step3ResultsNoEntry(res, map, tf) == res

\* results after the map: the elements are distinct ids, so the entries the
\* callback adds (lines 179-183) never change the branch of a later element
Step3Results(res, map, tf) ==
  LET added == {tf[k].channelId : k \in {j \in 1..Len(tf) : Unresolved(tf[j], res, map)}}
  IN [x \in (DOMAIN res) \cup added |->
        IF x \in DOMAIN res THEN res[x] ELSE NoUploadsResult]

\* the limiter after limit(...) was called for the submitted elements, in order
RECURSIVE LimitAll(_, _, _, _)
LimitAll(L, sub, map, conc) ==
  IF sub = <<>> THEN L
  ELSE LimitAll(limit(L, Head(sub).channelId,
                      Val(UploadsPlaylistId(Head(sub), map)), conc),
                Tail(sub), map, conc)

Step3(res, map, tf, conc) ==
  [results |-> Step3Results(res, map, tf),
   lim |-> LimitAll(Limiter(EmptyMap, 0, <<>>, {}),
                    SelectSeq(tf, LAMBDA c : Submitted(c, res, map)), map, conc),
   order |-> ChannelIds(SelectSeq(tf, LAMBDA c : Submitted(c, res, map)))]

----------------------------------------------------------------------------
(* The state machine *)

Resting == pc \in {"idle", "done", "rejected"}

\* an entry of the history variable failure
Failed(stage, r) == [stage |-> stage, r |-> r]

\* chrome.storage.local.get(cacheKeys): id -> Null | Some(entry)
Cached(s) ==
  [id \in SeqToSet(s) |-> IF id \in DOMAIN storage THEN Some(storage[id]) ELSE Null]

Init ==
  /\ now = StartNow
  /\ storage = EmptyMap
  /\ cached = EmptyMap
  /\ pc = "idle"
  /\ ids = <<>>
  /\ bypassCache = FALSE
  /\ concurrency = 1
  /\ results = EmptyMap
  /\ toFetch = <<>>
  /\ needPlaylistId = <<>>
  /\ i = 0
  /\ playlistIdMap = EmptyMap
  /\ bcall = NewCall
  /\ tasks = EmptyMap
  /\ active = 0
  /\ queue = <<>>
  /\ promises = EmptyMap
  /\ order = <<>>
  /\ scanAt = StartNow
  /\ batchCalls = <<>>
  /\ detailCalls = {}
  /\ failure = EmptyMap
  /\ apiKey = Null
  /\ handler = "none"
  /\ request = Null
  /\ responses = <<>>
  /\ cards = <<>>
  /\ scanning = FALSE
  /\ debounceTimer = FALSE
  /\ inflight = <<>>
  /\ unstamped = <<>>
  /\ badge = <<>>
  /\ retrying = <<>>
  /\ exit = "no_cards"
  /\ scanned = {}
  /\ scanNow = [state |-> "none", cardsSeen |-> FALSE, busy |-> FALSE, bypassSent |-> FALSE]

\* (Proceed with a fault seeded: the loop of line 144 ends after its first pass)
ProceedOnePass(res, map, need, tf, conc, idx, calls) ==
  IF idx < Len(need) /\ idx < BatchSize
  THEN /\ pc' = "batch"
       /\ i' = idx
       /\ bcall' = NewCall
       /\ batchCalls' = Append(calls, Chunk(need, idx))
       /\ results' = res
       /\ playlistIdMap' = map
       /\ tasks' = EmptyMap
       /\ active' = 0
       /\ queue' = <<>>
       /\ promises' = EmptyMap
       /\ order' = <<>>
       /\ detailCalls' = {}
  ELSE LET a == Step3(res, map, tf, conc)
       IN /\ pc' = "detail"
          /\ i' = idx
          /\ bcall' = NewCall
          /\ batchCalls' = calls
          /\ results' = a.results
          /\ playlistIdMap' = map
          /\ tasks' = a.lim.tasks
          /\ active' = a.lim.active
          /\ queue' = a.lim.queue
          /\ promises' = [id \in SeqToSet(a.order) |-> Pending]
          /\ order' = a.order
          /\ detailCalls' = a.lim.started

\* The loop test of line 144 with the index at idx: either the call of the
\* next chunk is issued, or the loop ends and step 3 runs up to the await of
\* Promise.all.
Proceed(res, map, need, tf, conc, idx, calls) ==
  IF idx < Len(need)
  THEN /\ pc' = "batch"
       /\ i' = idx
       /\ bcall' = NewCall
       /\ batchCalls' = Append(calls, Chunk(need, idx))
       /\ results' = res
       /\ playlistIdMap' = map
       /\ tasks' = EmptyMap
       /\ active' = 0
       /\ queue' = <<>>
       /\ promises' = EmptyMap
       /\ order' = <<>>
       /\ detailCalls' = {}
  ELSE LET a == Step3(res, map, tf, conc)
       IN /\ pc' = "detail"
          /\ i' = idx
          /\ bcall' = NewCall
          /\ batchCalls' = calls
          /\ results' = a.results
          /\ playlistIdMap' = map
          /\ tasks' = a.lim.tasks
          /\ active' = a.lim.active
          /\ queue' = a.lim.queue
          /\ promises' = [id \in SeqToSet(a.order) |-> Pending]
          /\ order' = a.order
          /\ detailCalls' = a.lim.started

\* fetchLastUploadDates(s, settings, bypass) up to its first network call:
\* lines 107-134, and the first pass of the loop of line 144. readOk is
\* whether chrome.storage.local.get resolves.
StartScan(s, bypass, conc, readOk) ==
  /\ Resting
  /\ ids' = s
  /\ bypassCache' = bypass
  /\ concurrency' = conc
  /\ scanAt' = now
  /\ failure' = EmptyMap
  /\ UNCHANGED <<now, storage>>
  /\ cached' = IF readOk THEN Cached(s) ELSE EmptyMap
  /\ IF ~readOk
     THEN /\ pc' = "rejected"
          /\ results' = EmptyMap
          /\ toFetch' = <<>>
          /\ needPlaylistId' = <<>>
          /\ i' = 0
          /\ playlistIdMap' = EmptyMap
          /\ bcall' = NewCall
          /\ tasks' = EmptyMap
          /\ active' = 0
          /\ queue' = <<>>
          /\ promises' = EmptyMap
          /\ order' = <<>>
          /\ batchCalls' = <<>>
          /\ detailCalls' = {}
     ELSE LET res == CachedResults(s, Cached(s), bypass, now)
              tf == ToFetch(s, Cached(s), bypass, now)
              need == NeedPlaylistId(tf)
          IN /\ toFetch' = tf
             /\ needPlaylistId' = need
             /\ IF Len(tf) = 0
                THEN /\ pc' = "done"
                     /\ results' = res
                     /\ i' = 0
                     /\ playlistIdMap' = EmptyMap
                     /\ bcall' = NewCall
                     /\ tasks' = EmptyMap
                     /\ active' = 0
                     /\ queue' = <<>>
                     /\ promises' = EmptyMap
                     /\ order' = <<>>
                     /\ batchCalls' = <<>>
                     /\ detailCalls' = {}
                ELSE Proceed(res, EmptyMap, need, tf, conc, 0, <<>>)

\* The fetch of the current chunk's call settles with r: lines 152-166 and
\* the loop's next pass.
BatchResponse(r) ==
  /\ pc = "batch"
  /\ bcall.st = "fetch"
  /\ LET batch == Chunk(needPlaylistId, i)
         o == fetchJsonWithRetry(bcall, r)
         \* data.items of the JSON value null raises a TypeError
         thrown == o.tag = "throw" \/ (o.tag = "return" /\ o.data.parse = "null")
         e == IF o.tag = "throw" THEN o.err ELSE Error(MsgType, Null, FALSE)
     IN IF o.tag = "sleep"
        THEN /\ bcall' = CallSleep(bcall)
             /\ UNCHANGED <<pc, i, batchCalls, results, playlistIdMap, tasks,
                            active, queue, promises, order, detailCalls, failure>>
        ELSE IF thrown
        THEN /\ failure' = [x \in (DOMAIN failure) \cup SeqToSet(batch) |->
                              IF x \in SeqToSet(batch) THEN Failed("batch", r)
                              ELSE failure[x]]
             /\ Proceed(MarkBatch(results, batch, e), playlistIdMap,
                        needPlaylistId, toFetch, concurrency, i + BatchSize,
                        batchCalls)
        ELSE /\ failure' = failure
             /\ Proceed(results,
                        FillMissing(PutItems(playlistIdMap, o.data.items), batch),
                        needPlaylistId, toFetch, concurrency, i + BatchSize,
                        batchCalls)
  /\ UNCHANGED <<now, storage, ids, bypassCache, concurrency, toFetch,
                 needPlaylistId, scanAt>>
  /\ UNCHANGED <<cached, shell, page>>

\* sleep(delay) of the batch call is over
BatchWake ==
  /\ pc = "batch"
  /\ bcall.st = "sleep"
  /\ bcall' = CallWake(bcall)
  /\ UNCHANGED <<now, storage, pc, ids, bypassCache, concurrency, results,
                 toFetch, needPlaylistId, i, playlistIdMap, tasks, active,
                 queue, promises, order, scanAt, batchCalls, detailCalls, failure>>
  /\ UNCHANGED <<cached, shell, page>>

\* item?.contentDetails?.videoPublishedAt ?? null, for data.items?.[0]
LastUploadAt(data) ==
  IF data.items = <<>> THEN Null ELSE data.items[1].videoPublishedAt

SetLimiter(L) ==
  /\ tasks' = L.tasks
  /\ active' = L.active
  /\ queue' = L.queue
  /\ detailCalls' = L.started

CurrentLimiter == Limiter(tasks, active, queue, detailCalls)

\* fn() of task id has settled as p: lines 17-22
TaskSettled(id, p) ==
  /\ promises' = Put(promises, id, limitPromise(p))
  /\ order' = order
  /\ SetLimiter(settle(CurrentLimiter, id, concurrency))

\* The fetch of task id settles with r: lines 195-207 up to the await of
\* chrome.storage.local.set, or the catch of lines 217-220 and the limiter's
\* finally.
DetailResponse(id, r) ==
  /\ pc = "detail"
  /\ id \in DOMAIN tasks
  /\ tasks[id].st = "fetch"
  /\ LET o == fetchJsonWithRetry(tasks[id], r)
         thrown == o.tag = "throw" \/ (o.tag = "return" /\ o.data.parse = "null")
         e == IF o.tag = "throw" THEN o.err ELSE Error(MsgType, Null, FALSE)
     IN IF o.tag = "sleep"
        THEN /\ tasks' = [tasks EXCEPT ![id] = CallSleep(@)]
             /\ UNCHANGED <<results, active, queue, promises, order,
                            detailCalls, failure>>
        ELSE IF thrown
        THEN /\ results' = Put(results, id, ErrorResult(e))
             /\ failure' = Put(failure, id, Failed("detail", r))
             /\ TaskSettled(id, Fulfilled(Undefined))
        ELSE /\ results' = Put(results, id, DatedResult(LastUploadAt(o.data), now))
             /\ tasks' = [tasks EXCEPT ![id].st = "store"]
             /\ UNCHANGED <<active, queue, promises, order, detailCalls, failure>>
  /\ UNCHANGED <<now, storage, pc, ids, bypassCache, concurrency, toFetch,
                 needPlaylistId, i, playlistIdMap, bcall, scanAt, batchCalls>>
  /\ UNCHANGED <<cached, shell, page>>

\* sleep(delay) of task id is over
DetailWake(id) ==
  /\ pc = "detail"
  /\ id \in DOMAIN tasks
  /\ tasks[id].st = "sleep"
  /\ tasks' = [tasks EXCEPT ![id] = CallWake(@)]
  /\ UNCHANGED <<now, storage, pc, ids, bypassCache, concurrency, results,
                 toFetch, needPlaylistId, i, playlistIdMap, bcall, active,
                 queue, promises, order, scanAt, batchCalls, detailCalls, failure>>
  /\ UNCHANGED <<cached, shell, page>>

\* chrome.storage.local.set of task id settles (lines 210-216): the entry is
\* stored, or the rejection is caught at line 217; then the limiter's finally.
StoreDone(id, writeOk) ==
  /\ pc = "detail"
  /\ id \in DOMAIN tasks
  /\ tasks[id].st = "store"
  /\ IF writeOk
     THEN /\ storage' = Put(storage, id,
                            CacheEntry(Some(tasks[id].handle),
                                       results[id].lastUploadAt, now))
          /\ results' = results
     ELSE /\ storage' = storage
          /\ results' = Put(results, id, ErrorResult(Error(MsgStorage, Null, FALSE)))
  /\ TaskSettled(id, Fulfilled(Undefined))
  /\ UNCHANGED <<now, pc, ids, bypassCache, concurrency, toFetch,
                 needPlaylistId, i, playlistIdMap, bcall, scanAt, batchCalls,
                 failure>>
  /\ UNCHANGED <<cached, shell, page>>

\* await Promise.all(promises); return results (lines 224-225). The locals
\* cached, playlistIdMap and the record of failed responses end with the call.
Return ==
  /\ pc = "detail"
  /\ PromiseAll(promises) = "fulfilled"
  /\ pc' = "done"
  /\ playlistIdMap' = EmptyMap
  /\ failure' = EmptyMap
  /\ UNCHANGED <<now, storage, ids, bypassCache, concurrency, results, toFetch,
                 needPlaylistId, i, bcall, tasks, active, queue, promises,
                 order, scanAt, batchCalls, detailCalls>>
  /\ cached' = EmptyMap
  /\ UNCHANGED <<shell, page>>

\* time passes between two scans
Tick ==
  /\ Resting
  /\ now < MaxNow
  /\ now' = now + TickMs
  /\ UNCHANGED <<storage, pc, ids, bypassCache, concurrency, results, toFetch,
                 needPlaylistId, i, playlistIdMap, bcall, tasks, active, queue,
                 promises, order, scanAt, batchCalls, detailCalls, failure>>
  /\ UNCHANGED <<cached, shell, page>>

Next ==
  \/ \E s \in IdLists(Ids), b \in BOOLEAN, c \in 1..MaxConcurrency, ok \in BOOLEAN :
       StartScan(s, b, c, ok) /\ UNCHANGED <<shell, page>>
  \/ \E r \in BatchResponses(Chunk(needPlaylistId, i)) : BatchResponse(r)
  \/ BatchWake
  \/ \E id \in DOMAIN tasks, r \in DetailResponses : DetailResponse(id, r)
  \/ \E id \in DOMAIN tasks : DetailWake(id)
  \/ \E id \in DOMAIN tasks, ok \in BOOLEAN : StoreDone(id, ok)
  \/ Return
  \/ Tick

Spec == Init /\ [][Next]_vars

----------------------------------------------------------------------------------------------------------------------------------------
(* A second specification, for lists long enough to need several chunks.   *)
(* The code is the same; the environment is narrower: one scan of a list   *)
(* 1..n right after installation (empty cache), and answers of the remote  *)
(* API in which only the first id of a chunk may have an uploads playlist, *)
(* so that only a chunk's first id can get a detail task, and in which a   *)
(* detail call is never rate-limited.                                      *)

MaxBatchIds == 120

\* the lengths of the lists
BatchLengths == 1..MaxBatchIds

WideKinds(batch, k) ==
  [x \in SeqToSet(batch) |-> IF x = Head(batch) THEN k ELSE "missing"]

WideBatchResponses(batch) ==
  IF batch = <<>> THEN {}
  ELSE {OkResponse(BatchBody(batch, WideKinds(batch, k), FALSE)) :
          k \in {"handle", "nouploads"}}
       \cup {Response("http", 403, Some(MsgQuota), NoBody),
             Response("http", 500, Null, NoBody)}

WideDetailResponses ==
  {OkResponse(Body("ok", <<DetailItem(Some(TRecent), Null)>>)),
   Response("http", 500, Null, NoBody)}

NextBatch ==
  \/ \E n \in BatchLengths, c \in 1..(MaxConcurrency + 1) :
       pc = "idle" /\ StartScan([k \in 1..n |-> k], FALSE, c, TRUE) /\ UNCHANGED <<shell, page>>
  \/ \E r \in WideBatchResponses(Chunk(needPlaylistId, i)) : BatchResponse(r)
  \/ BatchWake
  \/ \E id \in DOMAIN tasks, r \in WideDetailResponses : DetailResponse(id, r)
  \/ \E id \in DOMAIN tasks : StoreDone(id, TRUE)
  \/ Return

SpecBatch == Init /\ [][NextBatch]_vars

----------------------------------------------------------------------------
(* A third specification, for the limiter with more tasks than slots. The  *)
(* code is the same; the environment is narrower: one scan of the list     *)
(* 1..MaxTasks right after installation, a batch answer that gives every   *)
(* id its uploads playlist, so that every id gets a detail task, and       *)
(* detail answers that are a video or a rate-limit response.               *)

MaxTasks == 3

AllHandles(batch) ==
  OkResponse(BatchBody(batch, [x \in SeqToSet(batch) |-> "handle"], FALSE))

LimiterDetailResponses ==
  {OkResponse(Body("ok", <<DetailItem(Some(TRecent), Null)>>)),
   Response("http", 429, Null, NoBody)}

NextLimiter ==
  \/ \E c \in 1..(MaxTasks - 1) :
       /\ pc = "idle"
       /\ StartScan([k \in 1..MaxTasks |-> k], FALSE, c, TRUE)
       /\ UNCHANGED <<shell, page>>
  \/ BatchResponse(AllHandles(Chunk(needPlaylistId, i)))
  \/ \E id \in DOMAIN tasks, r \in LimiterDetailResponses : DetailResponse(id, r)
  \/ \E id \in DOMAIN tasks : DetailWake(id)
  \/ \E id \in DOMAIN tasks : StoreDone(id, TRUE)
  \/ Return

SpecLimiter == Init /\ [][NextLimiter]_vars

----------------------------------------------------------------------------
(* A fourth specification, for createLimiter on its own: a caller creates  *)
(* a limiter and hands it tasks one by one, at any time; the function of   *)
(* task id is an async function that ends by returning TaskValue(id) or by *)
(* throwing TaskError(id). pc is "pool" while that caller holds the        *)
(* limiter; a running task has st "fetch".                                 *)

TaskValue(id) == Some(id)
TaskError(id) == Some(<<"e", Digit(id)>>)

\* createLimiter(conc)
CreateLimiter(conc) ==
  /\ pc = "idle"
  /\ pc' = "pool"
  /\ concurrency' = conc
  /\ UNCHANGED <<now, storage, ids, bypassCache, results, toFetch,
                 needPlaylistId, i, playlistIdMap, bcall, tasks, active, queue,
                 promises, order, scanAt, batchCalls, detailCalls, failure>>
  /\ UNCHANGED <<cached, shell, page>>

\* limit(fn) for the task id
Submit(id) ==
  /\ pc = "pool"
  /\ id \notin DOMAIN tasks
  /\ SetLimiter(limit(CurrentLimiter, id, HandleOf(id), concurrency))
  /\ promises' = Put(promises, id, Pending)
  /\ order' = Append(order, id)
  /\ UNCHANGED <<now, storage, pc, ids, bypassCache, concurrency, results,
                 toFetch, needPlaylistId, i, playlistIdMap, bcall, scanAt,
                 batchCalls, failure>>
  /\ UNCHANGED <<cached, shell, page>>

\* the promise fn() returned for the task id settles as p
TaskEnds(id, p) ==
  /\ pc = "pool"
  /\ id \in DOMAIN tasks
  /\ tasks[id].st = "fetch"
  /\ TaskSettled(id, p)
  /\ UNCHANGED <<now, storage, pc, ids, bypassCache, concurrency, results,
                 toFetch, needPlaylistId, i, playlistIdMap, bcall, scanAt,
                 batchCalls, failure>>
  /\ UNCHANGED <<cached, shell, page>>

NextPool ==
  \/ \E c \in 1..(MaxTasks - 1) : CreateLimiter(c)
  \/ \E id \in 1..MaxTasks : Submit(id)
  \/ \E id \in DOMAIN tasks : TaskEnds(id, Fulfilled(TaskValue(id)))
  \/ \E id \in DOMAIN tasks : TaskEnds(id, Rejected(TaskError(id)))

SpecPool == Init /\ [][NextPool]_vars

----------------------------------------------------------------------------
(* A fifth specification, for termination: one scan of the list            *)
(* 1..MaxTasks right after installation, with a concurrency an options     *)
(* page can save (options.js line 43: at least 1). A batch call is         *)
(* answered by every id's uploads playlist, by a rate-limit response or by *)
(* a server error, a detail call by a video or a rate-limit response. The  *)
(* fairness conditions are those of the runtime: a timer fires, a cache    *)
(* write settles and the continuation of Promise.all runs. That a fetch    *)
(* gets its response is not assumed here.                                  *)

LiveBatchResponses(batch) ==
  {AllHandles(batch), Response("http", 429, Null, NoBody),
   Response("http", 500, Null, NoBody)}

NextLive ==
  \/ \E c \in 1..(MaxTasks - 1) :
       /\ pc = "idle"
       /\ StartScan([k \in 1..MaxTasks |-> k], FALSE, c, TRUE)
       /\ UNCHANGED <<shell, page>>
  \/ \E r \in LiveBatchResponses(Chunk(needPlaylistId, i)) : BatchResponse(r)
  \/ BatchWake
  \/ \E id \in DOMAIN tasks, r \in LimiterDetailResponses : DetailResponse(id, r)
  \/ \E id \in DOMAIN tasks : DetailWake(id)
  \/ \E id \in DOMAIN tasks, ok \in BOOLEAN : StoreDone(id, ok)
  \/ Return

Settling ==
  /\ WF_vars(BatchWake)
  /\ WF_vars(\E id \in DOMAIN tasks : DetailWake(id))
  /\ WF_vars(\E id \in DOMAIN tasks, ok \in BOOLEAN : StoreDone(id, ok))
  /\ WF_vars(Return)

SpecLive == Init /\ [][NextLive]_vars /\ Settling

----------------------------------------------------------------------------
(* A specification for isFresh alone: the clock and the cache entry of id  *)
(* 1 are drawn from a grid of instants that starts at the epoch, in steps  *)
(* of 6 hours, and a scan without bypass applies isFresh to the entry.     *)

FreshSteps == 8
FreshTimes == {k * 6 * HourMs : k \in 0..FreshSteps}

FreshCaches ==
  {EmptyMap} \cup
  {Put(EmptyMap, 1, CacheEntry(Some(HandleOf(1)), Null, t)) : t \in FreshTimes}

InitFresh ==
  /\ now \in FreshTimes
  /\ storage \in FreshCaches
  /\ cached = EmptyMap
  /\ pc = "idle"
  /\ ids = <<>>
  /\ bypassCache = FALSE
  /\ concurrency = 1
  /\ results = EmptyMap
  /\ toFetch = <<>>
  /\ needPlaylistId = <<>>
  /\ i = 0
  /\ playlistIdMap = EmptyMap
  /\ bcall = NewCall
  /\ tasks = EmptyMap
  /\ active = 0
  /\ queue = <<>>
  /\ promises = EmptyMap
  /\ order = <<>>
  /\ scanAt = now
  /\ batchCalls = <<>>
  /\ detailCalls = {}
  /\ failure = EmptyMap
  /\ apiKey = Null
  /\ handler = "none"
  /\ request = Null
  /\ responses = <<>>
  /\ cards = <<>>
  /\ scanning = FALSE
  /\ debounceTimer = FALSE
  /\ inflight = <<>>
  /\ unstamped = <<>>
  /\ badge = <<>>
  /\ retrying = <<>>
  /\ exit = "no_cards"
  /\ scanned = {}
  /\ scanNow = [state |-> "none", cardsSeen |-> FALSE, busy |-> FALSE, bypassSent |-> FALSE]

NextFresh ==
  pc = "idle" /\ StartScan(<<1>>, FALSE, 1, TRUE) /\ UNCHANGED <<shell, page>>

SpecFresh == InitFresh /\ [][NextFresh]_vars

----------------------------------------------------------------------------
(* The service worker: the SCAN_CHANNELS case of the onMessage listener    *)
(* (src/src/background/limiter.js, lines 46-77), and the options page that *)
(* saves the API key (src/src/options/options.js, lines 36-44). The model  *)
(* handles one message at a time.                                          *)

MissingApiKey ==
  <<"M", "I", "S", "S", "I", "N", "G", "_", "A", "P", "I", "_", "K", "E", "Y">>

\* { type: "SCAN_CHANNELS", channelIds, bypassCache }; bypassCache may be absent
ScanChannels(s, bypass) == [type |-> "SCAN_CHANNELS", channelIds |-> s, bypassCache |-> bypass]

\* { ok, error } or { ok, result }
ScanResponse(ok, error, result) == [ok |-> ok, error |-> error, result |-> result]

\* a ?? b
Coalesce(a, b) == IF a = Null THEN b ELSE Val(a)

\* (Truthy with a fault seeded: the empty string counts as a key)
TruthyNonNull(k) == k # Null

\* !settings.apiKey is false: the key is stored and is not the empty string
Truthy(k) == k # Null /\ Val(k) # <<>>

\* the Save button of the options page: the trimmed text of the key field
SaveOptions(key) ==
  /\ handler \in {"none", "end"}
  /\ apiKey' = Some(key)
  /\ UNCHANGED <<pipeline, handler, request, responses, page>>

\* the listener is called with a SCAN_CHANNELS message: up to await getSettings()
Receive(m) ==
  /\ handler \in {"none", "end"}
  /\ Resting
  /\ handler' = "settings"
  /\ request' = Some(m)
  /\ responses' = <<>>
  /\ UNCHANGED <<pipeline, apiKey, page>>

\* getSettings() has resolved: lines 52-61, up to the first await of
\* fetchLastUploadDates
SettingsLoaded(conc, readOk) ==
  /\ handler = "settings"
  /\ IF ~Truthy(apiKey)
     THEN /\ responses' = Append(responses, ScanResponse(FALSE, Some(MissingApiKey), Null))
          /\ handler' = "end"
          /\ UNCHANGED pipeline
     ELSE /\ StartScan(Val(request).channelIds,
                       Coalesce(Val(request).bypassCache, FALSE), conc, readOk)
          /\ handler' = "scan"
          /\ responses' = responses
  /\ UNCHANGED <<apiKey, request, page>>

\* fetchLastUploadDates has settled: lines 63-70 up to the await of
\* chrome.storage.local.set, or the catch of lines 73-75
ScanSettled ==
  /\ handler = "scan"
  /\ pc \in {"done", "rejected"}
  /\ IF pc = "rejected"
     THEN /\ responses' = Append(responses, ScanResponse(FALSE, Some(MsgStorage), Null))
          /\ handler' = "end"
     ELSE /\ responses' = responses
          /\ handler' = "summary"
  /\ UNCHANGED <<pipeline, apiKey, request, page>>

\* the write of lastScanSummary has settled: line 72, or the catch of lines 73-75
SummaryStored(writeOk) ==
  /\ handler = "summary"
  /\ responses' =
       Append(responses,
              IF writeOk THEN ScanResponse(TRUE, Null, Some(results))
              ELSE ScanResponse(FALSE, Some(MsgStorage), Null))
  /\ handler' = "end"
  /\ UNCHANGED <<pipeline, apiKey, request, page>>

WorkerBatchResponses(batch) ==
  {AllHandles(batch), Response("http", 500, Null, NoBody)}

WorkerDetailResponses ==
  {OkResponse(Body("ok", <<DetailItem(Some(TRecent), Null)>>)),
   Response("http", 500, Null, NoBody)}

NextWorker ==
  \/ \E key \in {<<>>, <<"k">>} : SaveOptions(key)
  \/ \E s \in IdLists(Ids), b \in {Null, Some(FALSE), Some(TRUE)} :
       Receive(ScanChannels(s, b))
  \/ \E c \in 1..MaxConcurrency, ok \in BOOLEAN : SettingsLoaded(c, ok)
  \/ \E r \in WorkerBatchResponses(Chunk(needPlaylistId, i)) : BatchResponse(r)
  \/ \E id \in DOMAIN tasks, r \in WorkerDetailResponses : DetailResponse(id, r)
  \/ \E id \in DOMAIN tasks, ok \in BOOLEAN : StoreDone(id, ok)
  \/ Return
  \/ ScanSettled
  \/ \E ok \in BOOLEAN : SummaryStored(ok)

SpecWorker == Init /\ [][NextWorker]_vars

----------------------------------------------------------------------------
(* The content script (src/src/content/content_script.js). The page is    *)
(* loaded with no channel card yet, so the scan() of the boot (lines       *)
(* 230-234) has returned at line 40; cards arrive afterwards, with their   *)
(* id stamped or not yet, and the stamped ones are numbered in page order. *)
(* The service worker is seen from outside: the promise of sendMessage     *)
(* settles at some later time.                                             *)

MaxCards == 3
MaxUnstamped == 1
MaxPending == 1

\* a scan() call suspended at its await
ScanCall(bypass, caller) ==
  [message |-> ScanChannels(cards, Some(bypass)), caller |-> caller]

\* { status } and { status, error }: the infos the content script makes itself
StatusInfo(status, error) == Result(Null, Null, status, error)

\* ytscAttachBadge(card, info), dom.js lines 103-149: the badge that replaces
\* the one the card shows, named after its text
ytscAttachBadge(info) ==
  IF info.status = "loading" THEN "loading"
  ELSE IF info.status = "api_error" THEN "api_error"
  ELSE IF info.status = "quota_exceeded" THEN "quota_exceeded"
  ELSE IF info.status = "no_uploads" THEN "no_uploads"
  ELSE IF info.status = "unsupported" THEN "unsupported"
  ELSE IF info.status = "ok" /\ info.daysAgo # Null
  THEN IF Val(info.daysAgo) > info.thresholdDays THEN "inactive" ELSE "active"
  ELSE "unknown"

\* the badges of the classes active, inactive and warning (line 66)
RealBadges == {"active", "inactive", "no_uploads", "unknown"}

\* lines 58-61: "Checking..." on every card with an id
Checking == [c \in 1..Len(cards) |-> ytscAttachBadge(StatusInfo("loading", Null))]

\* lines 65-69: "unsupported" on the cards without an id that show no real badge
Unsupported ==
  [u \in 1..Len(unstamped) |->
     IF unstamped[u] \in RealBadges THEN unstamped[u]
     ELSE ytscAttachBadge(StatusInfo("unsupported", Null))]

\* (scan with a fault seeded: the guard of line 34 is missing)
scanUnguarded(bypass, caller) ==
  IF cards = <<>> /\ unstamped = <<>>
  THEN exit' = "no_cards" /\ UNCHANGED <<scanning, inflight, scanned, badge, unstamped>>
  ELSE IF cards = <<>>
  THEN /\ exit' = "no_ids"
       /\ unstamped' = Unsupported
       /\ UNCHANGED <<scanning, inflight, scanned, badge>>
  ELSE /\ scanning' = TRUE
       /\ badge' = Checking
       /\ unstamped' = Unsupported
       /\ inflight' = Append(inflight, ScanCall(bypass, caller))
       /\ scanned' = scanned \cup SeqToSet(cards)
       /\ exit' = "awaiting"

\* The call of scan(bypassCache) up to its first await or return (lines
\* 33-85). caller tells the timer's call from the popup's. The returns of
\* lines 40 and 73 reset STATE.scanning, which the call itself had set.
scan(bypass, caller) ==
  IF scanning
  THEN exit' = "guard" /\ UNCHANGED <<scanning, inflight, scanned, badge, unstamped>>
  ELSE IF cards = <<>> /\ unstamped = <<>>
  THEN /\ exit' = "no_cards"
       /\ scanning' = FALSE
       /\ UNCHANGED <<inflight, scanned, badge, unstamped>>
  ELSE IF cards = <<>>
  THEN /\ exit' = "no_ids"
       /\ scanning' = FALSE
       /\ unstamped' = Unsupported
       /\ UNCHANGED <<inflight, scanned, badge>>
  ELSE /\ scanning' = TRUE
       /\ badge' = Checking
       /\ unstamped' = Unsupported
       /\ inflight' = Append(inflight, ScanCall(bypass, caller))
       /\ scanned' = scanned \cup SeqToSet(cards)
       /\ exit' = "awaiting"

\* scheduleScan(), lines 138-141
scheduleScan == debounceTimer' = TRUE

\* A card that carries its id is added to the page: the MutationObserver
\* (lines 145-159) calls scheduleScan.
AddCard ==
  /\ Len(cards) < MaxCards
  /\ cards' = Append(cards, Len(cards) + 1)
  /\ badge' = Append(badge, "none")
  /\ retrying' = Append(retrying, 0)
  /\ scheduleScan
  /\ UNCHANGED <<unstamped, scanning, inflight, scanned, scanNow, exit, pipeline, shell>>

\* A card is added before the injector has stamped its id: the
\* MutationObserver calls scheduleScan.
AddUnstamped ==
  /\ Len(unstamped) < MaxUnstamped
  /\ Len(cards) + Len(unstamped) < MaxCards
  /\ unstamped' = Append(unstamped, "none")
  /\ scheduleScan
  /\ UNCHANGED <<cards, badge, retrying, scanning, inflight, scanned, scanNow, exit,
                 pipeline, shell>>

\* The injector stamps the id of a card and dispatches ids-ready: line 225
\* calls scheduleScan. The card keeps the badge it shows.
Stamp ==
  /\ unstamped # <<>>
  /\ unstamped' = Tail(unstamped)
  /\ cards' = Append(cards, Len(cards) + 1)
  /\ badge' = Append(badge, Head(unstamped))
  /\ retrying' = Append(retrying, 0)
  /\ scheduleScan
  /\ UNCHANGED <<scanning, inflight, scanned, scanNow, exit, pipeline, shell>>

\* The debounce timer fires: () => scan(false), line 140
TimerFires ==
  /\ debounceTimer
  /\ debounceTimer' = FALSE
  /\ scan(FALSE, "timer")
  /\ UNCHANGED <<cards, retrying, scanNow, pipeline, shell>>

\* The popup's SCAN_NOW message arrives (lines 172-182): scan(true) is called;
\* if it returns without awaiting, its then-callback sends the response in
\* the same turn of the event loop.
ReceiveScanNow ==
  /\ scanNow.state # "pending"
  /\ scan(TRUE, "popup")
  /\ scanNow' = [state |-> IF scanning \/ cards = <<>> THEN "answered" ELSE "pending",
                 cardsSeen |-> cards # <<>>,
                 busy |-> scanning,
                 bypassSent |-> ~(scanning \/ cards = <<>>)]
  /\ UNCHANGED <<cards, retrying, debounceTimer, pipeline, shell>>

\* the way a scan() call ends once its sendMessage promise has settled as p:
\* the catch of lines 86-93, the error branch of lines 95-115, or the
\* rendering of lines 117-133
ScanExit(p) ==
  IF p.state = "rejected" THEN "unavailable"
  ELSE IF p.value = Null \/ ~Val(p.value).ok THEN "error"
  ELSE "rendered"

\* resp.result?.[channelId], lines 120 and 211: Null when there is none
InfoOf(resp, c) ==
  IF resp.result = Null \/ c \notin DOMAIN Val(resp.result) THEN Null
  ELSE Some(Val(resp.result)[c])

\* The badges b after the scan() call that sent the ids s has got p from
\* sendMessage. cardById holds the cards of s. Lines 86-93: the api_error
\* badge on each of them; lines 95-115: the badges are removed when the
\* error is MISSING_API_KEY and left alone otherwise; lines 119-129: the
\* badge of each card that has an info in the result.
Settled(b, s, p) ==
  LET mine == SeqToSet(s)
  IN IF p.state = "rejected"
     THEN [c \in DOMAIN b |->
             IF c \in mine THEN ytscAttachBadge(StatusInfo("api_error", Some(MsgNetwork)))
             ELSE b[c]]
     ELSE IF p.value = Null \/ ~Val(p.value).ok
     THEN IF p.value # Null /\ Val(p.value).error = Some(MissingApiKey)
          THEN [c \in DOMAIN b |-> IF c \in mine THEN "none" ELSE b[c]]
          ELSE b
     ELSE [c \in DOMAIN b |->
             IF c \in mine /\ InfoOf(Val(p.value), c) # Null
             THEN ytscAttachBadge(Val(InfoOf(Val(p.value), c)))
             ELSE b[c]]

\* The awaited sendMessage of the k-th suspended scan() call settles as p
\* (lines 86-134): on each of the three ways out STATE.scanning is reset;
\* the then-callback of a popup's call then sends the SCAN_NOW response.
ScanResumes(k, p) ==
  /\ k \in 1..Len(inflight)
  /\ scanning' = FALSE
  /\ inflight' = [j \in 1..(Len(inflight) - 1) |->
                    IF j < k THEN inflight[j] ELSE inflight[j + 1]]
  /\ badge' = Settled(badge, inflight[k].message.channelIds, p)
  /\ exit' = ScanExit(p)
  /\ scanNow' = IF inflight[k].caller = "popup"
                THEN [scanNow EXCEPT !.state = "answered"]
                ELSE scanNow
  /\ UNCHANGED <<cards, unstamped, retrying, debounceTimer, scanned, pipeline, shell>>

\* The user clicks the "API error - click to retry" badge of card c (dom.js
\* lines 118-127): the ytsc:retry handler (lines 195-208) puts the loading
\* badge on the card and sends SCAN_CHANNELS for its id alone.
RetryClick(c) ==
  /\ c \in 1..Len(cards)
  /\ badge[c] = "api_error"
  /\ retrying[c] < MaxPending
  /\ badge' = [badge EXCEPT ![c] = ytscAttachBadge(StatusInfo("loading", Null))]
  /\ retrying' = [retrying EXCEPT ![c] = @ + 1]
  /\ UNCHANGED <<cards, unstamped, scanning, debounceTimer, inflight, exit, scanned,
                 scanNow, pipeline, shell>>

\* The sendMessage of a retry of card c settles as p (lines 209-217): the
\* badge is replaced only when the response is ok and has an info for the
\* id; a rejection has no handler.
RetryResumes(c, p) ==
  /\ c \in 1..Len(cards)
  /\ retrying[c] > 0
  /\ retrying' = [retrying EXCEPT ![c] = @ - 1]
  /\ badge' = IF /\ p.state = "fulfilled"
                 /\ p.value # Null
                 /\ Val(p.value).ok
                 /\ InfoOf(Val(p.value), c) # Null
              THEN [badge EXCEPT ![c] = ytscAttachBadge(Val(InfoOf(Val(p.value), c)))]
              ELSE badge
  /\ UNCHANGED <<cards, unstamped, scanning, debounceTimer, inflight, exit, scanned,
                 scanNow, pipeline, shell>>

\* the infos of a result map: a recent upload, no upload, and a failure
PageInfos ==
  {Result(Some(StartNow - DayMs), Some(1), "ok", Null),
   NoUploadsResult,
   ErrorResult(Error(MsgNetwork, Null, FALSE))}

\* the result maps for the ids s: one info for every id, or for every id but
\* the last one (the page does not rely on the map being complete, lines
\* 120-121 and 211-212)
ResultMaps(s) ==
  {[c \in d |-> info] :
     d \in {SeqToSet(s), SeqToSet(s) \ {s[Len(s)]}}, info \in PageInfos}

\* how the promise of sendMessage may settle for a SCAN_CHANNELS message with
\* the ids s: rejected (the extension was reloaded), or fulfilled with
\* undefined, an error response or a result
SendMessageOutcomes(s) ==
  {Rejected(Some(MsgNetwork)),
   Fulfilled(Null),
   Fulfilled(Some(ScanResponse(FALSE, Some(MissingApiKey), Null))),
   Fulfilled(Some(ScanResponse(FALSE, Some(MsgStorage), Null)))}
  \cup {Fulfilled(Some(ScanResponse(TRUE, Null, Some(m)))) : m \in ResultMaps(s)}

NextContent ==
  \/ AddCard
  \/ AddUnstamped
  \/ Stamp
  \/ TimerFires
  \/ ReceiveScanNow
  \/ \E k \in 1..Len(inflight) :
       \E p \in SendMessageOutcomes(inflight[k].message.channelIds) : ScanResumes(k, p)
  \/ \E c \in 1..Len(cards) : RetryClick(c)
  \/ \E c \in 1..Len(cards) :
       \E p \in SendMessageOutcomes(<<c>>) : RetryResumes(c, p)

SpecContent == Init /\ [][NextContent]_vars

----------------------------------------------------------------------------
(* Properties *)

Statuses == {"ok", "no_uploads", "api_error", "quota_exceeded"}
ErrorStatuses == {"api_error", "quota_exceeded"}

\* the ids that were sent in some batch call of the scan
BatchedIds == UNION {SeqToSet(batchCalls[k]) : k \in 1..Len(batchCalls)}

\* the spec's freshness of the stored entry of id at instant t
FreshAt(id, t) ==
  /\ id \in DOMAIN storage
  /\ t - storage[id].lastCheckedAt < CacheTtlHours * HourMs

\* floor((t - T) / 86400 s) for an entry's lastActivityAt, null for null
DaysSince(lastUploadAt, t) ==
  IF lastUploadAt = Null THEN Null ELSE Some((t - Val(lastUploadAt)) \div DayMs)

\* lastUploadAt is a timestamp T
IsTimestamp(lastUploadAt) == lastUploadAt # Null /\ Val(lastUploadAt) \in Instants

\* a step that starts a scan which gets past the cache read
ScanStep == Resting /\ now' = now /\ pc' # "rejected"

\* the scan made no network call
NoNetworkCall == batchCalls = <<>> /\ detailCalls = {}

\* the detail tasks whose fetchJsonWithRetry call is under way
InFlight == {id \in DOMAIN tasks : tasks[id].st \in {"fetch", "sleep"}}

\* C1: the map a scan returns has exactly the submitted ids as its keys,
\* each with one of the four statuses; no other key (such as an id that
\* only a batch response mentions) is ever in the map.
C1_TotalCoverage ==
  /\ DOMAIN results \subseteq SeqToSet(ids)
  /\ \A id \in DOMAIN results : results[id].status \in Statuses
  /\ pc = "done" => DOMAIN results = SeqToSet(ids)

C1_Witness ==
  /\ pc = "done"
  /\ Len(ids) = 2
  /\ batchCalls # <<>>
  /\ results[ids[1]].status = "ok"
  /\ results[ids[2]].status = "no_uploads"

\* C2: at most `concurrency` detail fetches are in flight (fetching or
\* sleeping in backoff) at any time of a scan.
C2_ConcurrencyBound ==
  /\ Cardinality(InFlight) <= concurrency
  /\ Cardinality({id \in DOMAIN tasks : tasks[id].st \in {"fetch", "sleep", "store"}})
       <= concurrency

\* two slots, three tasks: one fetching, one sleeping in its third backoff,
\* one waiting in the queue
C2_Witness ==
  /\ pc = "detail"
  /\ concurrency = 2
  /\ Cardinality(DOMAIN tasks) = 3
  /\ Cardinality(InFlight) = concurrency
  /\ \E id \in DOMAIN tasks : tasks[id].st = "fetch"
  /\ \E id \in DOMAIN tasks : tasks[id].st = "sleep" /\ tasks[id].attempt = 2
  /\ queue # <<>>

\* C3: without bypass, an id whose stored entry is fresh is answered from
\* the entry: ok with daysAgo = floor((now - T) / 1 day) for a timestamp T,
\* no_uploads for null; it needs no handle, gets no task, and its entry of
\* the map is not changed while the scan runs; if every id is fresh the
\* scan returns at once without a network call.
C3_CacheShortCircuit ==
  [][ /\ (ScanStep /\ ~bypassCache') =>
          /\ \A id \in SeqToSet(ids') :
               FreshAt(id, now) =>
                 /\ id \in DOMAIN results'
                 /\ results'[id].status =
                      (IF storage[id].lastUploadAt # Null THEN "ok" ELSE "no_uploads")
                 /\ results'[id].lastUploadAt = storage[id].lastUploadAt
                 /\ storage[id].lastUploadAt = Null => results'[id].daysAgo = Null
                 /\ IsTimestamp(storage[id].lastUploadAt) =>
                      results'[id].daysAgo = DaysSince(storage[id].lastUploadAt, now)
                 /\ id \notin SeqToSet(needPlaylistId')
                 /\ id \notin DOMAIN tasks'
          /\ (\A id \in SeqToSet(ids') : FreshAt(id, now)) =>
               /\ pc' = "done"
               /\ batchCalls' = <<>>
               /\ detailCalls' = {}
      /\ pc \in {"batch", "detail"} =>
           \A id \in SeqToSet(ids) :
             (\A k \in 1..Len(toFetch) : toFetch[k].channelId # id) =>
               /\ id \in DOMAIN results
               /\ results'[id] = results[id]
               /\ id \notin detailCalls' \cup (DOMAIN tasks')
    ]_vars

C3_Witness ==
  /\ pc = "done"
  /\ ~bypassCache
  /\ now = scanAt
  /\ NoNetworkCall
  /\ Len(ids) = 2
  /\ results[ids[1]].status = "ok"
  /\ results[ids[1]].daysAgo = Some(2)
  /\ results[ids[2]].status = "no_uploads"
  /\ \A id \in SeqToSet(ids) : FreshAt(id, now)

\* C4 as stated: with bypass, a scan that has returned has issued a detail
\* call for every submitted id.
C4_DetailCallForEveryId ==
  (pc = "done" /\ bypassCache) => \A id \in SeqToSet(ids) : id \in detailCalls

\* C4 as amended: with bypass, every submitted id is sent to the network
\* (in a batch call or a detail call) whatever its cache entry; an id with a
\* cached handle gets a detail call; an id without a detail call was sent
\* in a batch call and ends no_uploads, api_error or quota_exceeded.
C4_BypassRefetches ==
  (pc = "done" /\ bypassCache) =>
    \A id \in SeqToSet(ids) :
      /\ id \in BatchedIds \cup detailCalls
      /\ id \in DOMAIN storage => id \in detailCalls
      /\ id \notin detailCalls =>
           /\ id \in BatchedIds
           /\ results[id].status \in {"no_uploads", "api_error", "quota_exceeded"}

\* a scan with bypass over two ids that both had an entry written at the
\* same clock value, hence fresh, and both fetched again
C4_Witness ==
  /\ pc = "done"
  /\ bypassCache
  /\ scanAt = StartNow
  /\ Len(ids) = 2
  /\ batchCalls = <<>>
  /\ detailCalls = SeqToSet(ids)

\* a step that starts the second of two scans in succession: the first has
\* returned, both run without bypass over the same ids, and less than the
\* TTL has passed since the first started
SecondScanStep ==
  /\ pc = "done"
  /\ ScanStep
  /\ ~bypassCache
  /\ ~bypassCache'
  /\ ids' = ids
  /\ now - scanAt < CacheTtlHours * HourMs

\* C5 as stated: the second scan returns the output of the first and makes
\* no network call.
C5_SecondRunIdentical ==
  [][ SecondScanStep =>
        /\ pc' = "done"
        /\ results' = results
        /\ batchCalls' = <<>>
        /\ detailCalls' = {}
    ]_vars

\* C5 as amended: in the second scan an id whose stored entry is fresh gets
\* the status and lastActivityAt it had in the first, with daysAgo computed
\* at the time of the second, and no network call is made for it; if every
\* id has a fresh entry the second scan makes no network call.
C5_SecondRunFromCache ==
  [][ SecondScanStep =>
        /\ \A id \in SeqToSet(ids) :
             FreshAt(id, now) =>
               /\ id \in DOMAIN results
               /\ id \in DOMAIN results'
               /\ results'[id].status = results[id].status
               /\ results'[id].lastUploadAt = results[id].lastUploadAt
               /\ results[id].lastUploadAt = Null => results'[id].daysAgo = Null
               /\ IsTimestamp(results[id].lastUploadAt) =>
                    results'[id].daysAgo = DaysSince(results[id].lastUploadAt, now)
               /\ id \notin SeqToSet(needPlaylistId')
               /\ id \notin DOMAIN tasks'
        /\ (\A id \in SeqToSet(ids) : FreshAt(id, now)) =>
             /\ pc' = "done"
             /\ batchCalls' = <<>>
             /\ detailCalls' = {}
    ]_vars

\* the second scan has returned, one clock tick after the first fetched both
\* ids: same statuses from the cache, daysAgo one day larger
C5_Witness ==
  /\ pc = "done"
  /\ ~bypassCache
  /\ scanAt = StartNow + TickMs
  /\ now = scanAt
  /\ NoNetworkCall
  /\ Len(ids) = 2
  /\ \A id \in SeqToSet(ids) :
       /\ id \in DOMAIN storage
       /\ storage[id].lastCheckedAt = StartNow
       /\ results[id].status = "ok"
       /\ results[id].daysAgo = Some(2)

\* C6: the batch calls partition needPlaylistId in order into chunks of 50,
\* the last one of 1 to 50; once the loop is over there are ceil(n/50) of
\* them and every id was requested in exactly one.
C6_BatchChunking ==
  LET n == Len(needPlaylistId)
  IN /\ \A k \in 1..Len(batchCalls) :
          /\ Len(batchCalls[k]) >= 1
          /\ Len(batchCalls[k]) <= 50
          /\ k < Len(batchCalls) => Len(batchCalls[k]) = 50
          /\ \A j \in 1..Len(batchCalls[k]) :
               /\ (k - 1) * 50 + j <= n
               /\ batchCalls[k][j] = needPlaylistId[(k - 1) * 50 + j]
     /\ pc \in {"detail", "done"} =>
          /\ Len(batchCalls) = (n + 49) \div 50
          /\ \A p \in 1..n :
               Cardinality({k \in 1..Len(batchCalls) :
                              needPlaylistId[p] \in SeqToSet(batchCalls[k])}) = 1

C6_Witness ==
  /\ pc = "done"
  /\ Len(needPlaylistId) = 120
  /\ Len(batchCalls) = 3
  /\ Len(batchCalls[1]) = 50
  /\ Len(batchCalls[2]) = 50
  /\ Len(batchCalls[3]) = 20

\* the batch call of the chunk of id failed
BatchFailed(id) == id \in DOMAIN failure /\ failure[id].stage = "batch"

\* C7: once the batch loop is over, every chunk has had its call; a chunk
\* failed as a whole or not at all; the ids of a failed chunk have status
\* api_error or quota_exceeded and no detail task; every other id is
\* resolved from its own chunk's answer: no handle gives no_uploads without
\* a task, a handle gives a task with that handle, and it has an error
\* status only if its own detail task gave it.
C7_ChunkFailureIsolated ==
  pc = "detail" =>
    /\ Len(batchCalls) = (Len(needPlaylistId) + 49) \div 50
    /\ \A k \in 1..Len(batchCalls) :
         \/ \A id \in SeqToSet(batchCalls[k]) : BatchFailed(id)
         \/ \A id \in SeqToSet(batchCalls[k]) : ~BatchFailed(id)
    /\ \A id \in SeqToSet(needPlaylistId) :
         IF BatchFailed(id)
         THEN /\ results[id].status \in ErrorStatuses
              /\ id \notin DOMAIN tasks
              /\ id \notin detailCalls
         ELSE /\ id \in DOMAIN playlistIdMap
              /\ IF playlistIdMap[id] = Null
                 THEN /\ results[id].status = "no_uploads"
                      /\ id \notin DOMAIN tasks
                 ELSE /\ id \in DOMAIN tasks
                      /\ tasks[id].handle = Val(playlistIdMap[id])
                      /\ (id \in DOMAIN results /\ results[id].status \in ErrorStatuses)
                           => (id \in DOMAIN failure /\ failure[id].stage = "detail")

\* the second of three chunks failed; the first ids of the first and of the
\* third chunk have their detail tasks
C7_Witness ==
  /\ pc = "detail"
  /\ Len(batchCalls) = 3
  /\ \A id \in SeqToSet(batchCalls[2]) : BatchFailed(id)
  /\ \A id \in SeqToSet(batchCalls[1]) \cup SeqToSet(batchCalls[3]) : ~BatchFailed(id)
  /\ batchCalls[1][1] \in DOMAIN tasks
  /\ batchCalls[3][1] \in DOMAIN tasks

\* the calls of fetchJsonWithRetry under way or just returned
Calls ==
  (IF pc = "batch" THEN {bcall} ELSE {}) \cup
  {tasks[id] : id \in {x \in DOMAIN tasks : tasks[x].st \in {"fetch", "sleep", "store"}}}

RECURSIVE Pow2(_)
Pow2(k) == IF k = 0 THEN 1 ELSE 2 * Pow2(k - 1)

\* C8: the k-th sleep of a call is 1000 * 2^(k-1) ms: a call at its attempt
\* number a (0 for the first) has slept a times, a call that is sleeping
\* a + 1 times; a call that returns after three rate-limit responses has
\* slept 1000, 2000, 4000 and one that returns at once has not slept.
C8_BackoffDoubling ==
  \A c \in Calls :
    /\ Len(c.sleeps) = (IF c.st = "sleep" THEN c.attempt + 1 ELSE c.attempt)
    /\ \A k \in 1..Len(c.sleeps) : c.sleeps[k] = 1000 * Pow2(k - 1)
    /\ (c.st = "store" /\ c.attempt = 3) => c.sleeps = <<1000, 2000, 4000>>
    /\ (c.st = "store" /\ c.attempt = 0) => c.sleeps = <<>>

C8_Witness ==
  \E id \in DOMAIN tasks :
    /\ tasks[id].st = "store"
    /\ tasks[id].attempt = 3
    /\ tasks[id].sleeps = <<1000, 2000, 4000>>
    /\ results[id].status = "ok"

\* C9: an id whose call failed has status quota_exceeded exactly when the
\* final response is a 403 whose message contains "quota" in some case (of
\* the messages of the model: MsgQuota, "xQuOta"), and api_error otherwise;
\* for batch calls and for detail calls.
C9_QuotaClassification ==
  \A id \in DOMAIN failure :
    /\ id \in DOMAIN results
    /\ results[id].status =
         (IF /\ failure[id].r.kind = "http"
             /\ failure[id].r.status = 403
             /\ failure[id].r.msg = Some(MsgQuota)
          THEN "quota_exceeded" ELSE "api_error")

\* one id failed at the batch stage with a 403 and a quota message, another
\* at the detail stage with a 429 and the same message
C9_Witness ==
  \E a, b \in DOMAIN failure :
    /\ failure[a].stage = "batch"
    /\ results[a].status = "quota_exceeded"
    /\ failure[b].stage = "detail"
    /\ failure[b].r.status = 429
    /\ failure[b].r.msg = Some(MsgQuota)
    /\ results[b].status = "api_error"

\* C10 as stated: fetchLastUploadDates never rejects.
C10_NeverRejects == pc # "rejected"

\* C10 as amended: fetchLastUploadDates rejects only when the cache read at
\* its start fails, before any network call; a failed network call or an
\* unusable response gives an error status to the ids of that call, and an
\* id has an error status only for a failure of its own call or of its own
\* cache write.
C10_FailuresBecomeStatuses ==
  /\ pc = "rejected" => (NoNetworkCall /\ DOMAIN results = {})
  /\ pc \in {"batch", "detail"} =>
       /\ \A id \in DOMAIN failure :
            id \in DOMAIN results /\ results[id].status \in ErrorStatuses
       /\ \A id \in DOMAIN results :
            results[id].status \in ErrorStatuses =>
              (id \in DOMAIN failure \/ results[id].error = Some(MsgStorage))

\* a scan in which the batch call of one id failed, the detail response of
\* another could not be parsed
C10_Witness ==
  /\ pc = "detail"
  /\ \E a, b \in DOMAIN failure :
       /\ failure[a].stage = "batch"
       /\ failure[b].stage = "detail"
       /\ failure[b].r.data.parse = "syntax"

\* the place of id in the order of the limit() calls
Place(id) == CHOOSE k \in 1..Len(order) : order[k] = id

\* C11: the limiter starts tasks in the order of their submission: of two
\* tasks handed to limit(), the second is never started while the first is
\* not, and the queue holds the tasks not yet started in that order.
C11_FifoStart ==
  /\ \A a, b \in DOMAIN tasks :
       (Place(a) < Place(b) /\ b \in detailCalls) => a \in detailCalls
  /\ queue = SelectSeq(order, LAMBDA id : id \notin detailCalls)
  /\ \A id \in DOMAIN tasks : id \in detailCalls <=> tasks[id].st # "queued"

\* two slots; the task submitted second ended before the one submitted first,
\* which is still running, and the third was started in its place
C11_Witness ==
  /\ pc = "pool"
  /\ concurrency = 2
  /\ Len(order) = 3
  /\ order # <<1, 2, 3>>
  /\ tasks[order[1]].st = "fetch"
  /\ tasks[order[2]].st = "done"
  /\ tasks[order[3]].st = "fetch"

\* the task id has ended
Ended(id) == id \in DOMAIN tasks /\ tasks[id].st = "done"

\* C12: the promise limit() returned for a task is pending until the task
\* ends and then has the task's own outcome, fulfilled with its value or
\* rejected with its error; when a task ends, by failure or not, its slot
\* is freed (active is the number of running tasks), no other task's
\* promise or progress is touched except that the head of the queue is
\* started, and a task never waits in the queue while a slot is free.
C12_OwnOutcomeOnly ==
  /\ [](pc = "pool" =>
          /\ \A id \in DOMAIN tasks :
               /\ id \in DOMAIN promises
               /\ promises[id].state = "pending" <=> ~Ended(id)
               /\ promises[id].state = "fulfilled" => promises[id].value = TaskValue(id)
               /\ promises[id].state = "rejected" => promises[id].value = TaskError(id)
          /\ active = Cardinality({id \in DOMAIN tasks : tasks[id].st = "fetch"})
          /\ queue # <<>> => active = concurrency)
  /\ [][ \A a \in DOMAIN tasks :
           (pc = "pool" /\ ~Ended(a) /\ Ended(a)') =>
             /\ queue # <<>> => (Head(queue) \in detailCalls' /\ queue' = Tail(queue))
             /\ \A b \in (DOMAIN tasks) \ {a} :
                  /\ promises'[b] = promises[b]
                  /\ \/ tasks'[b] = tasks[b]
                     \/ (queue # <<>> /\ b = Head(queue) /\ tasks'[b].st = "fetch")
       ]_vars

\* one slot: the first task failed, and the second, which waited in the
\* queue meanwhile, was started and has ended with its own value
C12_Witness ==
  /\ pc = "pool"
  /\ concurrency = 1
  /\ Len(order) = 3
  /\ promises[order[1]] = Rejected(TaskError(order[1]))
  /\ promises[order[2]] = Fulfilled(TaskValue(order[2]))
  /\ tasks[order[3]].st = "fetch"

\* daysAgo of a result entry is a non-null integer
HasDaysAgo(r) == r.daysAgo # Null /\ Val(r.daysAgo) # NaN

\* C13 as stated: in every entry of the result map, daysAgo is a non-null
\* integer if and only if the status is ok.
C13_DaysAgoIffOk ==
  pc = "done" =>
    \A id \in DOMAIN results : HasDaysAgo(results[id]) <=> results[id].status = "ok"

\* the scan is under way
Scanning == pc \in {"batch", "detail"}

\* a fetch awaits its response
BatchPending == pc = "batch" /\ bcall.st = "fetch"
DetailPending(id) == pc = "detail" /\ id \in DOMAIN tasks /\ tasks[id].st = "fetch"

\* every network call eventually gets a response or fails
EveryCallAnswered ==
  /\ []<>(~BatchPending)
  /\ \A id \in 1..MaxTasks : []<>(~DetailPending(id))

\* C14: if every network call is answered, a scan that has started returns: it reaches the end of
\* fetchLastUploadDates with an entry for every id, and no task stays in the
\* limiter's queue, in a fetch, in a backoff sleep or in a cache write.
C14_ScanReturns ==
  EveryCallAnswered =>
    (Scanning ~> /\ pc = "done"
                 /\ DOMAIN results = SeqToSet(ids)
                 /\ queue = <<>>
                 /\ \A id \in DOMAIN tasks : tasks[id].st = "done")

\* a returned scan of three ids with one slot, in which the calls of id 1 used
\* up their retries and id 3, queued behind the two others, got its answer
C14_Witness ==
  /\ pc = "done"
  /\ concurrency = 1
  /\ Len(order) = 3
  /\ results[1].status = "api_error"
  /\ results[1].error = Some(HttpMsg(429))
  /\ results[3].status = "ok"

\* the response of the handler to a message that found no API key
MissingKeyResponse == ScanResponse(FALSE, Some(MissingApiKey), Null)

\* C15: when the handler of a SCAN_CHANNELS message finds no API key
\* configured (none stored, or the empty string), it sends the response
\* { ok: false, error: "MISSING_API_KEY" } at once and ends; neither in
\* that step nor later, until the next message arrives, is
\* fetchLastUploadDates entered or any call, result or cache entry made,
\* and no second response is sent.
\* At most one response is sent for any message.
C15_MissingKeyAnswered ==
  /\ [](Len(responses) <= 1 /\ (handler = "end" => Len(responses) = 1))
  /\ [][ /\ (handler = "settings" /\ ~(apiKey # Null /\ Val(apiKey) # <<>>)) =>
              /\ handler' = "end"
              /\ responses' = <<MissingKeyResponse>>
              /\ UNCHANGED pipeline
         /\ (handler = "end" /\ responses = <<MissingKeyResponse>> /\ handler' = "end") =>
              /\ responses' = responses
              /\ UNCHANGED pipeline
         /\ responses' # responses =>
              (MissingKeyResponse \in SeqToSet(responses')
                 <=> (handler = "settings" /\ ~(apiKey # Null /\ Val(apiKey) # <<>>)))
       ]_vars

\* the key was saved and a scan returned results; then the key was cleared
\* (saved as the empty string) and the next message got MISSING_API_KEY
C15_Witness ==
  /\ handler = "end"
  /\ apiKey = Some(<<>>)
  /\ responses = <<MissingKeyResponse>>
  /\ pc = "done"
  /\ DOMAIN results # {}

\* C16 (as stated): every answered SCAN_NOW message that found cards on the
\* page had its scan(true) call send a SCAN_CHANNELS message with
\* bypassCache = true before the answer, also when it arrived while another
\* scan was in progress.
C16_ScanNowBypasses ==
  (scanNow.state = "answered" /\ scanNow.cardsSeen) => scanNow.bypassSent

\* C17 (as stated): when the content script is at rest (no scan running, no
\* debounce timer armed), every card of the page has been included in a
\* scan.
C17_EveryCardScanned ==
  (~scanning /\ ~debounceTimer /\ inflight = <<>>) => SeqToSet(cards) \subseteq scanned

RECURSIVE SumSeq(_)
SumSeq(s) == IF s = <<>> THEN 0 ELSE Head(s) + SumSeq(Tail(s))

\* the response is a 403 or a 429
RateLimited(r) == r.kind = "http" /\ r.status \in {403, 429}

\* C18: a call of fetchJsonWithRetry makes at most 4 attempts (attempt
\* numbers 0..3) and sleeps at most 7000 ms in total. Whatever error response
\* its pending fetch gets, it sleeps exactly when the response is a 403 or a
\* 429 and fewer than 3 retries were made, and throws otherwise, with the
\* status of the response. A call starts to sleep only from a pending fetch
\* with fewer than 3 retries made, and a failed call gives its ids an error
\* status in the step of the failing response; if that response is a 403 or
\* a 429 the 3 retries had been used.
C18_BoundedRetries ==
  /\ [](\A c \in Calls :
          /\ c.attempt <= 3
          /\ Len(c.sleeps) <= 3
          /\ SumSeq(c.sleeps) <= 7000
          /\ c.st = "fetch" =>
               \A r \in ErrResponses :
                 LET o == fetchJsonWithRetry(c, r)
                 IN IF RateLimited(r) /\ c.attempt < 3
                    THEN o.tag = "sleep"
                    ELSE /\ o.tag = "throw"
                         /\ r.kind = "http" => o.err.status = Some(r.status))
  /\ [][ /\ (pc = "batch" /\ bcall.st = "fetch" /\ bcall'.st = "sleep") =>
              /\ bcall.attempt < 3
              /\ bcall'.attempt = bcall.attempt
              /\ bcall'.sleeps = Append(bcall.sleeps, bcall.delay)
         /\ (pc = "batch" /\ bcall.st = "fetch") =>
              \A id \in DOMAIN failure' :
                (id \notin DOMAIN failure \/ failure'[id] # failure[id]) =>
                  /\ id \in SeqToSet(Chunk(needPlaylistId, i))
                  /\ results'[id].status \in ErrorStatuses
                  /\ RateLimited(failure'[id].r) => bcall.attempt = 3
         /\ \A id \in DOMAIN tasks :
              /\ (pc = "detail" /\ tasks[id].st = "fetch" /\ tasks'[id].st = "sleep") =>
                   /\ tasks[id].attempt < 3
                   /\ tasks'[id].attempt = tasks[id].attempt
                   /\ tasks'[id].sleeps = Append(tasks[id].sleeps, tasks[id].delay)
              /\ (pc = "detail" /\ tasks[id].st = "fetch" /\ tasks'[id].st = "done") =>
                   /\ id \in DOMAIN failure'
                   /\ results'[id].status \in ErrorStatuses
                   /\ RateLimited(failure'[id].r) => tasks[id].attempt = 3
       ]_vars

\* one detail call failed on a 429 after its three retries, another on a 500
C18_Witness ==
  \E a, b \in DOMAIN failure :
    /\ failure[a].stage = "detail"
    /\ failure[a].r.status = 429
    /\ failure[b].stage = "detail"
    /\ failure[b].r.status = 500
    /\ results[a].status = "api_error"
    /\ results[b].status = "api_error"

\* the handle the scan read from the cache for id: Null if there is none
CachedHandle(id) ==
  IF id \notin DOMAIN cached \/ cached[id] = Null THEN Null
  ELSE Val(cached[id]).uploadsPlaylistId

\* C19: while a scan runs, an id for which the cache read returned an entry
\* with a handle is neither awaiting a batch call nor in any batch call made,
\* whether the scan bypasses the cache or the entry is stale, and its detail
\* task, which exists once the batch stage is over unless the entry was
\* served from the cache, holds the cached handle; every id sent in a batch
\* call had no cached handle.
C19_CachedHandleSkipsBatch ==
  pc \in {"batch", "detail"} =>
    /\ \A id \in SeqToSet(ids) :
         CachedHandle(id) # Null =>
           /\ id \notin SeqToSet(needPlaylistId)
           /\ id \notin BatchedIds
           /\ id \in DOMAIN tasks => tasks[id].handle = Val(CachedHandle(id))
           /\ (pc = "detail" /\ (bypassCache \/ ~isFresh(cached[id], CacheTtlHours, scanAt)))
                => id \in DOMAIN tasks
    /\ \A id \in BatchedIds : CachedHandle(id) = Null

\* a scan that bypasses the cache, of an id with a stale entry and an id
\* with a fresh one: both have a detail task with the cached handle and no
\* batch call was made
C19_Witness ==
  /\ pc = "detail"
  /\ bypassCache
  /\ batchCalls = <<>>
  /\ \E a, b \in DOMAIN tasks :
       /\ CachedHandle(a) # Null /\ ~isFresh(cached[a], CacheTtlHours, scanAt)
       /\ CachedHandle(b) # Null /\ isFresh(cached[b], CacheTtlHours, scanAt)

\* C20: while a scan runs, an id whose detail fetch has failed has status
\* api_error or quota_exceeded, and its cache entry is the one the scan read
\* at its start: the same handle, timestamp and lastCheckedAt, or no entry
\* if there was none.
C20_FailureLeavesCache ==
  pc = "detail" =>
    \A id \in DOMAIN failure :
      failure[id].stage = "detail" =>
        /\ results[id].status \in ErrorStatuses
        /\ results[id].lastUploadAt = Null
        /\ IF cached[id] = Null THEN id \notin DOMAIN storage
           ELSE id \in DOMAIN storage /\ storage[id] = Val(cached[id])

\* the detail fetch failed for an id with a stale cache entry and for an id
\* without one
C20_Witness ==
  /\ pc = "detail"
  /\ \E a, b \in DOMAIN failure :
       /\ failure[a].stage = "detail"
       /\ cached[a] # Null
       /\ ~isFresh(cached[a], CacheTtlHours, scanAt)
       /\ storage[a] = Val(cached[a])
       /\ results[a].status = "quota_exceeded"
       /\ failure[b].stage = "detail"
       /\ cached[b] = Null
       /\ b \notin DOMAIN storage
       /\ results[b].status = "api_error"

\* the statuses of a detail fetch that succeeded
FetchedStatuses == {"ok", "no_uploads"}

\* C21 (as stated): once the detail fetch of an id has succeeded and its
\* task has settled, the cache holds for the id the handle of the fetch, the
\* fetched timestamp and the current time.
C21_SuccessWritesCache ==
  pc = "detail" =>
    \A id \in DOMAIN tasks :
      (tasks[id].st = "done" /\ id \notin DOMAIN failure) =>
        /\ id \in DOMAIN storage
        /\ storage[id] = CacheEntry(Some(tasks[id].handle), results[id].lastUploadAt, now)

\* C21 (amended): a detail fetch that succeeds gives the id status ok or
\* no_uploads and is followed by a cache write. If the write succeeds, the
\* entry of the id is overwritten with the handle of the fetch, the fetched
\* timestamp (null for zero items) and the current time; it is fresh, and a
\* cache hit computed from it gives the same result entry. If the write
\* fails, the cache is unchanged and the id gets api_error. A later scan
\* without bypass that finds the entry fresh reports the status the entry
\* stands for.
C21_WriteAfterFetch ==
  /\ [](pc = "detail" =>
          \A id \in DOMAIN tasks :
            /\ tasks[id].st = "store" =>
                 /\ results[id].status \in FetchedStatuses
                 /\ id \notin DOMAIN failure
            /\ (/\ tasks[id].st = "done"
                /\ id \notin DOMAIN failure
                /\ results[id].status \in FetchedStatuses) =>
                 /\ id \in DOMAIN storage
                 /\ storage[id] = [uploadsPlaylistId |-> Some(tasks[id].handle),
                                   lastUploadAt |-> results[id].lastUploadAt,
                                   lastCheckedAt |-> now]
                 /\ FreshAt(id, now)
                 /\ DatedResult(storage[id].lastUploadAt, now) = results[id])
  /\ [][ /\ pc = "detail" =>
              \A id \in DOMAIN tasks :
                (tasks[id].st = "store" /\ tasks'[id].st = "done") =>
                  \/ /\ results' = results
                     /\ id \in DOMAIN storage'
                     /\ storage'[id] = [uploadsPlaylistId |-> Some(tasks[id].handle),
                                        lastUploadAt |-> results[id].lastUploadAt,
                                        lastCheckedAt |-> now]
                  \/ /\ storage' = storage
                     /\ results'[id].status = "api_error"
         /\ (ScanStep /\ ~bypassCache') =>
              \A id \in SeqToSet(ids') :
                FreshAt(id, now) =>
                  results'[id].status =
                    (IF storage[id].lastUploadAt # Null THEN "ok" ELSE "no_uploads")
       ]_vars

\* the detail fetch of an id returned zero items and the write replaced the
\* entry the scan had read for it, which held a timestamp
C21_Witness ==
  /\ pc = "detail"
  /\ \E id \in DOMAIN tasks :
       /\ tasks[id].st = "done"
       /\ results[id].status = "no_uploads"
       /\ cached[id] # Null
       /\ Val(cached[id]).lastUploadAt # Null
       /\ storage[id].lastUploadAt = Null
       /\ storage[id].lastCheckedAt = now
       /\ Val(cached[id]).lastCheckedAt < now

\* the answer r of a batch call has no item for id, or only items without
\* an uploads playlist
NoHandleIn(r, id) ==
  \A k \in 1..Len(r.data.items) :
    r.data.items[k].id = id => r.data.items[k].uploads = Null

\* C22: whatever successful answer the pending batch call of a scan gets,
\* an id of the chunk for which the answer has no handle is recorded without
\* a handle, and when the chunk is the last one the id gets the entry
\* no_uploads and no detail task in the same step. From then on an id
\* recorded without a handle has status no_uploads, no detail task and no
\* detail call, up to and after the return of the scan.
C22_NoHandleNoDetail ==
  /\ (pc = "batch" /\ bcall.st = "fetch") =>
       LET batch == Chunk(needPlaylistId, i)
       IN \A r \in BatchResponses(batch) :
            (r.kind = "http" /\ r.status = 200 /\ r.data.parse = "ok") =>
              LET map == FillMissing(PutItems(playlistIdMap, r.data.items), batch)
                  s3 == Step3(results, map, toFetch, concurrency)
              IN \A id \in SeqToSet(batch) :
                   NoHandleIn(r, id) =>
                     /\ id \in DOMAIN map
                     /\ map[id] = Null
                     /\ i + BatchSize >= Len(needPlaylistId) =>
                          /\ id \in DOMAIN s3.results
                          /\ s3.results[id].status = "no_uploads"
                          /\ id \notin DOMAIN s3.lim.tasks
                          /\ id \notin s3.lim.started
  /\ pc = "detail" =>
       \A id \in SeqToSet(needPlaylistId) :
         (id \in DOMAIN playlistIdMap /\ playlistIdMap[id] = Null /\ ~BatchFailed(id)) =>
           /\ results[id].status = "no_uploads"
           /\ id \notin DOMAIN tasks
           /\ id \notin detailCalls
  /\ pc = "done" =>
       \A id \in SeqToSet(needPlaylistId) :
         (id \notin DOMAIN tasks /\ results[id].status \notin ErrorStatuses) =>
           /\ results[id].status = "no_uploads"
           /\ id \notin detailCalls

\* one batch call answered for two ids: a handle for the first, none for
\* the second, which has no_uploads while the first is being fetched
C22_Witness ==
  /\ pc = "detail"
  /\ Len(batchCalls) = 1
  /\ batchCalls[1] = <<1, 2>>
  /\ DOMAIN playlistIdMap = {1, 2}
  /\ playlistIdMap[1] # Null
  /\ playlistIdMap[2] = Null
  /\ results[2].status = "no_uploads"
  /\ 1 \in detailCalls
  /\ 2 \notin detailCalls

\* the detail tasks handed to the limiter that have not settled
Unsettled == {id \in DOMAIN tasks : tasks[id].st # "done"}

\* C23: the scan returns only in a step taken with every submitted task
\* settled, nothing queued and no task running, and the step leaves the
\* results as they are; after the return no task is queued, fetching,
\* sleeping or writing. While a task is unsettled the scan has not returned,
\* whether or not another task has failed.
C23_ReturnAfterAllSettled ==
  /\ [](/\ pc = "done" => (Unsettled = {} /\ queue = <<>> /\ active = 0)
        /\ Unsettled # {} => pc = "detail")
  /\ [][ (pc = "detail" /\ pc' # "detail") =>
           /\ Unsettled = {}
           /\ queue = <<>>
           /\ active = 0
           /\ pc' = "done"
           /\ results' = results
           /\ DOMAIN results = SeqToSet(ids)
       ]_vars

\* the scan has returned; the fetch of the first id had failed before the
\* task of the second id, which succeeded, was started
C23_Witness ==
  /\ pc = "done"
  /\ concurrency = 1
  /\ order = <<1, 2>>
  /\ detailCalls = {1, 2}
  /\ results[1].status = "quota_exceeded"
  /\ results[2].status = "ok"

PreferredTimestamp(data) ==
  IF data.items = <<>> THEN Null
  ELSE IF data.items[1].videoPublishedAt # Null THEN data.items[1].videoPublishedAt
  ELSE data.items[1].publishedAt

\* C25 (as stated): whatever well-formed body the pending detail fetch of a
\* task gets, the timestamp taken is videoPublishedAt if the first item has
\* it and publishedAt if it has only that, and the entry is no_uploads only
\* when there is no item or no timestamp in either field.
C25_PublishedAtFallback ==
  pc = "detail" =>
    \A id \in DOMAIN tasks :
      tasks[id].st = "fetch" =>
        \A data \in DetailBodies :
          /\ LastUploadAt(data) = PreferredTimestamp(data)
          /\ DatedResult(LastUploadAt(data), now).status = "no_uploads"
               <=> PreferredTimestamp(data) = Null

\* C26 (as stated): the step in which the cache write of a task settles,
\* successfully or not, leaves the result entry of its id as the detail
\* fetch made it.
C26_WriteFailureKeepsResult ==
  [][ pc = "detail" =>
        \A id \in DOMAIN tasks :
          (tasks[id].st = "store" /\ tasks'[id].st = "done") =>
            /\ results'[id] = results[id]
            /\ results'[id].status \in FetchedStatuses
    ]_vars

\* C27: in a limiter created with concurrency >= 1, active is between 0 and
\* concurrency and counts the tasks that are running; the queue holds
\* exactly the tasks not yet started; a task waits only while active =
\* concurrency; once every submitted task has settled, active is 0 and the
\* queue is empty.
C27_LimiterCounter ==
  pc = "pool" =>
    /\ concurrency >= 1
    /\ active >= 0
    /\ active <= concurrency
    /\ active = Cardinality({id \in DOMAIN tasks : tasks[id].st \notin {"queued", "done"}})
    /\ SeqToSet(queue) = {id \in DOMAIN tasks : tasks[id].st = "queued"}
    /\ Len(queue) = Cardinality(SeqToSet(queue))
    /\ queue # <<>> => active = concurrency
    /\ (\A id \in DOMAIN tasks : tasks[id].st = "done") => (active = 0 /\ queue = <<>>)

\* two slots, three tasks, all settled, one of them with an error: the
\* limiter is idle again
C27_Witness ==
  /\ pc = "pool"
  /\ concurrency = 2
  /\ Cardinality(DOMAIN tasks) = 3
  /\ \A id \in DOMAIN tasks : tasks[id].st = "done"
  /\ \E id \in DOMAIN promises : promises[id].state = "rejected"
  /\ active = 0
  /\ queue = <<>>

\* the number of chunks of needPlaylistId
ChunkCount == (Len(needPlaylistId) + BatchSize - 1) \div BatchSize

\* C28: while a scan is in its batch stage exactly one batch call is under
\* way, the one of the chunk at index i, with every earlier chunk called
\* before it, and no detail task exists. A batch call is issued only in the
\* step in which the call of the previous chunk settles (or the scan
\* starts), never while that call is fetching or sleeping in backoff. The
\* first detail tasks are created in the step in which the call of the last
\* chunk settles, or at the start of a scan that needs no batch call, and in
\* the detail stage every chunk has been called.
C28_StagesInOrder ==
  /\ [](/\ pc = "batch" =>
             /\ tasks = EmptyMap
             /\ detailCalls = {}
             /\ i % BatchSize = 0
             /\ Len(batchCalls) = i \div BatchSize + 1
             /\ batchCalls[Len(batchCalls)] = Chunk(needPlaylistId, i)
        /\ pc = "detail" => Len(batchCalls) = ChunkCount)
  /\ [][ /\ (pc = "batch" /\ batchCalls' # batchCalls) =>
              /\ bcall.st = "fetch"
              /\ bcall' = NewCall
              /\ pc' = "batch"
              /\ i' = i + BatchSize
              /\ Len(batchCalls') = Len(batchCalls) + 1
         /\ (pc = "batch" /\ bcall.st = "sleep") =>
              (pc' = "batch" /\ i' = i /\ batchCalls' = batchCalls /\ tasks' = tasks)
         /\ (pc = "batch" /\ pc' = "detail") =>
              /\ bcall.st = "fetch"
              /\ i + BatchSize >= Len(needPlaylistId)
              /\ Len(batchCalls) = ChunkCount
         /\ (pc # "detail" /\ pc' = "detail") =>
              (pc = "batch" \/ needPlaylistId' = <<>>)
       ]_vars

\* the call of the second of three chunks is sleeping in its backoff: the
\* third chunk has not been called and there is no detail task
C28_Witness ==
  /\ pc = "batch"
  /\ ChunkCount = 3
  /\ Len(batchCalls) = 2
  /\ bcall.st = "sleep"
  /\ tasks = EmptyMap

\* the cache entry of id, or Null
Entry(id) == IF id \in DOMAIN storage THEN Some(storage[id]) ELSE Null

\* id ended at the batch stage of the current or last scan: it was awaiting
\* a handle and got no detail task (no_uploads, api_error or quota_exceeded)
EndedAtBatch(id) ==
  /\ id \in SeqToSet(needPlaylistId)
  /\ id \notin DOMAIN tasks
  /\ id \in DOMAIN results

\* id ended with an error at the detail stage
FailedAtDetail(id) ==
  /\ id \in DOMAIN tasks
  /\ tasks[id].st = "done"
  /\ id \in DOMAIN results
  /\ results[id].status \in ErrorStatuses

\* the ids the scan that starts in this step will fetch
Refetched == {toFetch'[k].channelId : k \in 1..Len(toFetch')}

\* C29 (as stated): every cache entry has a handle, and the scan that
\* follows a scan in which an id ended with no_uploads at the batch stage or
\* with an error at either stage fetches the id again.
C29_FailedIdsRefetched ==
  /\ [](\A id \in DOMAIN storage : storage[id].uploadsPlaylistId # Null)
  /\ [][ (pc = "done" /\ ScanStep) =>
           \A id \in SeqToSet(ids) \cap SeqToSet(ids') :
             (EndedAtBatch(id) \/ FailedAtDetail(id)) => id \in Refetched
       ]_vars

\* C29 (amended): the cache changes only in the step in which the write
\* that follows a successful detail fetch succeeds, for the id of that
\* fetch alone, and every entry has a handle. While a scan runs, an id that
\* ended at the batch stage or failed at the detail stage has the entry the
\* scan read at its start; an id that ended at the batch stage has none.
\* The next scan fetches such an id again, except an id that failed at the
\* detail stage of a bypassing scan while its entry was fresh: a next scan
\* without bypass within the TTL serves it from that entry.
C29_OnlyFetchedIdsCached ==
  /\ [](/\ \A id \in DOMAIN storage : storage[id].uploadsPlaylistId # Null
        /\ pc = "detail" =>
             \A id \in SeqToSet(ids) :
               /\ (EndedAtBatch(id) \/ FailedAtDetail(id)) => Entry(id) = cached[id]
               /\ EndedAtBatch(id) => id \notin DOMAIN storage)
  /\ [][ /\ storage' # storage =>
              \E id \in DOMAIN tasks :
                /\ pc = "detail"
                /\ tasks[id].st = "store"
                /\ tasks'[id].st = "done"
                /\ id \in detailCalls
                /\ results[id].status \in FetchedStatuses
                /\ results' = results
                /\ storage' = Put(storage, id, storage'[id])
                /\ storage'[id].uploadsPlaylistId = Some(tasks[id].handle)
         /\ (pc = "done" /\ ScanStep) =>
              \A id \in SeqToSet(ids) \cap SeqToSet(ids') :
                /\ EndedAtBatch(id) => id \in Refetched
                /\ FailedAtDetail(id) =>
                     \/ id \in Refetched
                     \/ (bypassCache /\ ~bypassCache' /\ FreshAt(id, now))
       ]_vars

\* a bypassing scan has returned: the detail fetch of id 1, which has a
\* fresh entry, failed, and id 2 got no handle at the batch stage and has no
\* entry
C29_Witness ==
  /\ pc = "done"
  /\ bypassCache
  /\ ids = <<1, 2>>
  /\ FailedAtDetail(1)
  /\ FreshAt(1, now)
  /\ EndedAtBatch(2)
  /\ results[2].status = "no_uploads"
  /\ 2 \notin DOMAIN storage


\* the ways a scan() call returns after it has passed the guard of line 34
PastGuardExits == {"no_cards", "no_ids", "unavailable", "error", "rendered"}

\* a step in which a scan() call suspended at its await returns
ScanReturns == Len(inflight') < Len(inflight)

\* a step in which scan() is called while STATE.scanning is true
GuardedCall ==
  /\ scanning
  /\ \/ debounceTimer /\ ~debounceTimer'
     \/ scanNow.state # "pending" /\ scanNow' # scanNow

\* C30: in the content script at most one scan() call is past its entry guard
\* at any time, whatever the interleaving of card arrivals, debounced
\* re-scans and SCAN_NOW messages: STATE.scanning is true exactly while one
\* call is suspended at its await, a call made while STATE.scanning is true
\* returns without sending SCAN_CHANNELS and leaves the suspended call alone,
\* and STATE.scanning is false after every exit of a scan past its guard (no
\* cards, no ids, messaging failure, error response, success).
C30_OneScanAtATime ==
  [][ /\ Len(inflight) <= 1
      /\ scanning <=> inflight # <<>>
      /\ exit \in PastGuardExits => ~scanning
      /\ exit \in {"awaiting", "guard"} => scanning
      /\ GuardedCall =>
           /\ exit' = "guard"
           /\ inflight' = inflight
           /\ scanned' = scanned
           /\ scanning'
      /\ ScanReturns =>
           /\ exit' \in {"unavailable", "error", "rendered"}
           /\ ~scanning'
           /\ inflight' = <<>>
      /\ exit' \in PastGuardExits => ~scanning' ]_vars

\* a SCAN_NOW message arrived while the timer's scan was suspended at its
\* await: its scan() call returned at the guard, and the one call is still
\* suspended
C30_Witness ==
  /\ exit = "guard"
  /\ scanning
  /\ Len(inflight) = 1
  /\ inflight[1].caller = "timer"
  /\ scanNow.state = "answered"
  /\ scanNow.busy

\* the cards on which the suspended scan() call put the loading badge
LoadingCards == SeqToSet(inflight[1].message.channelIds)

\* a step in which the scan() call that put the loading badges returns
ScanEnds == Len(inflight) = 1 /\ inflight' = <<>> /\ ~scanning'

\* C31: when a content-script scan that put the loading badge on cards ends
\* (STATE.scanning back to false), none of those cards still shows the
\* loading badge, whatever the response to SCAN_CHANNELS and whatever the
\* interleaving with single-channel retries.
C31_NoLoadingAfterScan ==
  [][ScanEnds => \A c \in LoadingCards : badge'[c] # "loading"]_vars
====
